---- MODULE Spec2Model ----
(***************************************************************************)
(* Forensic logging pipeline of project_name: the ambient correlation      *)
(* context (logging/context.py), the audit event model (logging/audit.py)  *)
(* and the request logging middleware (logging/middleware.py).             *)
(*                                                                         *)
(* A task is one asyncio task: it owns one copy of every ContextVar.  The  *)
(* code between two awaits of a coroutine runs without interleaving, so    *)
(* one action is one such segment of a coroutine.                          *)
(*                                                                         *)
(* Beside the pipeline: the token tracker (ai/tracking.py), the holders of *)
(* the AI client (ai/__init__.py) and of the database client               *)
(* (db/__init__.py), and the metrics middleware (metrics/middleware.py).   *)
(***************************************************************************)
EXTENDS Integers, Sequences, FiniteSets, TLC

\* Number of asyncio tasks (request flows) that exist concurrently.
MaxTasks == 2

Tasks == 1..MaxTasks

\* Number of context operations direct callers of the context API run in all.
MaxOps == 4

\* Depth to which LogContext blocks are nested.
MaxDepth == 2

\* Python's None where a str is expected; no header or id has this text.
None == "None"

\* Truthiness of an Optional[str]: None and "" are falsy.
Truthy(s) == s # None /\ s # ""

\* _request_context holds None (modelled <<>>) or a dict d (modelled <<d>>).
NoCtx == <<>>

\* str(uuid4()): the n-th identifier generated in this process.
Uuid4(n) == "uuid-" \o ToString(n)

\* The number of masking passes over one text.
MaxPasses == 2

VARIABLES
    pc,         \* task -> position of its dispatch coroutine
    req,        \* task -> the request it handles
    loc,        \* task -> dispatch's local variables
    cid,        \* task -> value of ContextVar _correlation_id in that task
    rctx,       \* task -> value of ContextVar _request_context in that task
    dsCid,      \* task -> _correlation_id in the child task running call_next
    dsCtx,      \* task -> _request_context in the child task running call_next
    dsResult,   \* task -> what the downstream application produced
    outcome,    \* task -> what dispatch handed to its caller
    log,        \* task -> records emitted on behalf of that task, in order
    audit,      \* task -> audit records emitted by that task, in order
    calls,      \* task -> number of times call_next was invoked
    uuidCount,  \* number of uuid4() identifiers generated so far
    scope,      \* task -> the LogContext blocks it is inside, innermost last
    last,       \* task -> the context operation it ran last
    ops,        \* number of context operations run outside the middleware
    parent,     \* task -> the task that spawned it, 0 for a task nobody spawned
    setBy,      \* task -> the identifiers its set_correlation_id calls returned
    ret,        \* task -> <<v>> once it set (v the id returned) or cleared (v None)
    events,     \* task -> the SecurityEvent objects it built and has not serialized
    emitted,    \* task -> the dictionaries to_dict and JsonFormatter.format produced
    rootLevel,      \* level of the root logger
    rootHandlers,   \* handlers of the root logger, in order
    auditHandlers,  \* handlers of the logger 'audit', in order
    propagate,      \* attribute propagate of the logger 'audit'
    delivered,      \* per audit event logged, the sinks it was written to, in order
    sample,     \* the text handed to the masking filter, in its pieces
    texts,      \* that text, then the result of each masking pass over it
    arrived,    \* the request whose start is logged: its header items, method and body
    mwConfig,   \* log_request_body and max_body_length of the middleware
    request_log, \* the headers and body fields of the request_log dict, once built
    forwarded,  \* whether the request went on past the request started record
    auditCalled, \* the convenience methods of AuditLogger called, with their arguments, in order
    auditRecords, \* the records handed to the logger audit, in order
    _records,   \* TokenTracker._records
    recorded,   \* the usages handed to record() since the last clear(), in order
    trackerLast, \* the last call on the tracker: its name, what it returned, _records before it
    _client,    \* the module global _client of ai: 0 for None, else the number of the instance held
    created,    \* the number of OpenAIClient instances built so far
    closes,     \* instance -> the number of times its close() was called
    closing,    \* task -> the instance whose close() its close_ai_client awaits, 0 when it awaits none
    resets,     \* the number of times close_ai_client set the holder back to None
    aiLog,      \* the calls of get_ai_client and close_ai_client that ended, in order
    mpc,        \* task -> position of its PrometheusMetricsMiddleware.dispatch coroutine
    mreq,       \* task -> the request that dispatch handles
    mloc,       \* task -> method, endpoint and status_code, the locals of that dispatch
    in_progress, \* (method, endpoint) -> value of the gauge requests_in_progress
    recorded_requests, \* the calls of record_request, in order
    mresult,    \* task -> what call_next of that dispatch ended with
    moutcome,   \* task -> what that dispatch handed to its caller
    _db,        \* the module global _db of db: 0 for None, else the number of the client held
    prisma,     \* client -> "new", "connecting", "connected", "disconnecting" or "disconnected"
    dbpc,       \* task -> "idle", or the await its get_db_client or close_db_client is suspended in
    dbclient,   \* task -> the client whose connect() or disconnect() it awaits
    connects,   \* the state each client was in when connect() was called on it, in order
    dbReturned  \* what the get_db_client calls that returned gave: the client and its state then

vars == <<pc, req, loc, cid, rctx, dsCid, dsCtx, dsResult, outcome, log, audit, calls, uuidCount, scope, last, ops, parent, setBy, ret, events, emitted,
          rootLevel, rootHandlers, auditHandlers, propagate, delivered, sample, texts,
          arrived, mwConfig, request_log, forwarded,
          auditCalled, auditRecords,
          _records, recorded, trackerLast,
          _client, created, closes, closing, resets, aiLog,
          mpc, mreq, mloc, in_progress, recorded_requests, mresult, moutcome,
          _db, prisma, dbpc, dbclient, connects, dbReturned>>

\* The variables only the middleware changes, and those only direct callers of
\* the context API change.
mwVars == <<pc, req, loc, dsCid, dsCtx, dsResult, outcome, log, audit, calls>>

apiVars == <<scope, last, ops>>

\* The variables only the flows that spawn child tasks change.
flowVars == <<parent, setBy, ret>>

\* The variables only the flows that build events and format records change.
emitVars == <<events, emitted>>

\* The loggers configure_logging sets up and what they wrote.
logVars == <<rootLevel, rootHandlers, auditHandlers, propagate, delivered>>

\* The text the masking filter works on.
maskVars == <<sample, texts>>

\* Every variable declared before those of the request started record.
loggingVars == <<mwVars, apiVars, flowVars, emitVars, logVars, maskVars, cid, rctx, uuidCount>>

\* The request the middleware logs as started, and what it logged.
startVars == <<arrived, mwConfig, request_log, forwarded>>

\* The calls of the convenience methods of AuditLogger and the records they logged.
convVars == <<auditCalled, auditRecords>>

\* One TokenTracker, the usages handed to it and what its last call returned.
trackVars == <<_records, recorded, trackerLast>>

\* The holder of the AI client, the clients built and the calls made on the holder.
aiVars == <<_client, created, closes, closing, resets, aiLog>>

\* The requests inside PrometheusMetricsMiddleware.dispatch and the metrics of its collector.
metricsVars == <<mpc, mreq, mloc, in_progress, recorded_requests, mresult, moutcome>>

\* The holder of the database client, the Prisma clients built and the calls on the holder.
dbVars == <<_db, prisma, dbpc, dbclient, connects, dbReturned>>

\* What the actions of each of these subsystems leave unchanged.
exceptStartVars == <<loggingVars, convVars, trackVars, aiVars, metricsVars, dbVars>>

exceptConvVars == <<loggingVars, startVars, trackVars, aiVars, metricsVars, dbVars>>

exceptTrackVars == <<loggingVars, startVars, convVars, aiVars, metricsVars, dbVars>>

exceptAiVars == <<loggingVars, startVars, convVars, trackVars, metricsVars, dbVars>>

exceptMetricsVars == <<loggingVars, startVars, convVars, trackVars, aiVars, dbVars>>

exceptDbVars == <<loggingVars, startVars, convVars, trackVars, aiVars, metricsVars>>

\* The variables of the subsystems other than logging.
extVars == <<startVars, convVars, trackVars, aiVars, metricsVars, dbVars>>

-----------------------------------------------------------------------------
(* logging/context.py                                                      *)

\* ContextVar.get in task t.
ContextVarGet(var, t) == var[t]

\* A variable shared by all tasks instead of one copy per task.
ContextVarSetShared(var, t, v) == [u \in DOMAIN var |-> v]

\* ContextVar.set in task t: only t's copy changes.
ContextVarSet(var, t, v) == [var EXCEPT ![t] = v]

get_correlation_id(c, t) == ContextVarGet(c, t)

get_request_context(x, t) == ContextVarGet(x, t)

\* set_correlation_id(correlation_id): cid = correlation_id or str(uuid4()).
set_correlation_id(c, t, id, n) ==
    LET v == IF Truthy(id) THEN id ELSE Uuid4(n + 1)
    IN  [cid |-> ContextVarSet(c, t, v), ret |-> v, gen |-> IF Truthy(id) THEN 0 ELSE 1]

clear_correlation_id(c, t) == ContextVarSet(c, t, None)

set_request_context(x, t, d) == ContextVarSet(x, t, <<d>>)

clear_request_context(x, t) == ContextVarSet(x, t, NoCtx)

\* datetime.now(UTC).isoformat(): the clock is not modelled.
Timestamp == "now"

LogContextKeys == {"user_id", "session_id", "ip_address", "user_agent", "method", "path"}

\* The dict LogContext.__enter__ builds: timestamp, every truthy attribute,
\* then the extra entries (last write wins).
LogContextDict(lc) ==
    LET own == {k \in LogContextKeys : IF k = "path" THEN lc[k] # <<>> ELSE Truthy(lc[k])}
        keys == {"timestamp"} \cup own \cup DOMAIN lc.extra
    IN  [k \in keys |->
            IF k \in DOMAIN lc.extra THEN lc.extra[k]
            ELSE IF k = "timestamp" THEN Timestamp
            ELSE lc[k]]

\* LogContext.__enter__ in task t.
LogContext__enter__(c, x, t, lc, n) ==
    LET v == IF Truthy(lc.correlation_id) THEN lc.correlation_id ELSE Uuid4(n + 1)
    IN  [cid  |-> ContextVarSet(c, t, v),
         rctx |-> ContextVarSet(x, t, <<LogContextDict(lc)>>),
         gen  |-> IF Truthy(lc.correlation_id) THEN 0 ELSE 1]

\* An exit that resets the correlation id and forgets the request context.
LogContext__exit__CidOnly(c, x, t) ==
    [cid |-> ContextVarSet(c, t, None), rctx |-> x]

\* An exit that resets both ContextVars to the values its tokens hold.
LogContext__exit__Restore(c, x, t) ==
    IF scope[t] = <<>> THEN [cid |-> ContextVarSet(c, t, None), rctx |-> ContextVarSet(x, t, NoCtx)]
    ELSE [cid  |-> ContextVarSet(c, t, scope[t][Len(scope[t])].token_cid),
          rctx |-> ContextVarSet(x, t, scope[t][Len(scope[t])].token_ctx)]

\* LogContext.__exit__ in task t, whatever exception is passed in.
LogContext__exit__(c, x, t) ==
    [cid |-> ContextVarSet(c, t, None), rctx |-> ContextVarSet(x, t, NoCtx)]

\* An async exit that does not delegate.
LogContext__aexit__Noop(c, x, t) == [cid |-> c, rctx |-> x]

\* LogContext.__aexit__ delegates to __exit__.
LogContext__aexit__(c, x, t) == LogContext__exit__(c, x, t)

-----------------------------------------------------------------------------
(* logging/audit.py                                                        *)

API_ERROR == "api.error"

\* `if request_context:` - the snapshot is set and is not the empty dict.
TruthyDict(o) == o # NoCtx /\ DOMAIN o[1] # {}

\* SecurityEvent(...) with the dataclass defaults for the fields not given.
SecurityEvent(action, actor_id, ip_address, user_agent, details, metadata) ==
    [action |-> action, actor_id |-> actor_id, actor_type |-> "user",
     resource_type |-> None, resource_id |-> None, severity |-> "info",
     outcome |-> "success", reason |-> None, ip_address |-> ip_address,
     user_agent |-> user_agent, details |-> details, metadata |-> metadata]

\* SecurityEvent.to_dict in task t.
to_dict(ev, c, x, t) ==
    LET opt == {k \in {"reason", "ip_address", "user_agent", "details"} : Truthy(ev[k])}
        keys == {"event_type", "timestamp", "action", "actor", "severity", "outcome"}
                \cup opt
                \cup (IF Truthy(get_correlation_id(c, t)) THEN {"correlation_id"} ELSE {})
                \cup (IF TruthyDict(get_request_context(x, t)) THEN {"request_context"} ELSE {})
                \cup (IF Truthy(ev.resource_type) \/ Truthy(ev.resource_id) THEN {"resource"} ELSE {})
                \cup (IF DOMAIN ev.metadata # {} THEN {"metadata"} ELSE {})
    IN  [k \in keys |->
            CASE k = "event_type" -> "security_audit"
              [] k = "timestamp" -> Timestamp
              [] k = "actor" -> [id |-> ev.actor_id, type |-> ev.actor_type]
              [] k = "correlation_id" -> get_correlation_id(c, t)
              [] k = "request_context" -> get_request_context(x, t)[1]
              [] k = "resource" -> [type |-> ev.resource_type, id |-> ev.resource_id]
              [] OTHER -> ev[k]]

\* AuditLogger.log_event: one record on the 'audit' logger.
log_event(ev, c, x, t) ==
    [event |-> ev,
     msg   |-> IF Truthy(ev.details) THEN ev.details ELSE ev.action,
     extra |-> to_dict(ev, c, x, t)]

\* self.log_event(event) in the body of a convenience method: the events the
\* method hands to log_event, in order.
log_event_of(ev) == <<ev>>

\* {**f, **g}: the entries of g replace those of f.
Merge(f, g) == [k \in DOMAIN f \cup DOMAIN g |-> IF k \in DOMAIN g THEN g[k] ELSE f[k]]

\* AuditLogger.auth_success.  The f-string of details is kept as its template.
auth_success(user_id, ip_address, user_agent, method, metadata) ==
    log_event_of(
        SecurityEvent("auth.login.success", user_id, ip_address, user_agent,
                      "User {user_id} authenticated successfully via {method}",
                      Merge([auth_method |-> method], metadata)))

\* An authentication failure logged with the dataclass defaults of severity
\* and outcome.
auth_failure_Defaults(identifier, ip_address, user_agent, reason, metadata) ==
    log_event_of(
        [SecurityEvent("auth.login.failure", identifier, ip_address, user_agent,
                       "Authentication failed for {identifier}: {reason}", metadata)
            EXCEPT !.reason = reason])

\* AuditLogger.auth_failure
auth_failure(identifier, ip_address, user_agent, reason, metadata) ==
    log_event_of(
        [SecurityEvent("auth.login.failure", identifier, ip_address, user_agent,
                       "Authentication failed for {identifier}: {reason}", metadata)
            EXCEPT !.severity = "warning", !.outcome = "failure", !.reason = reason])

\* AuditLogger.access_denied
access_denied(user_id, resource_type, resource_id, action, reason, metadata) ==
    log_event_of(
        [SecurityEvent("authz.access.denied", user_id, None, None,
                       "Access denied: {action} on {resource_type}/{resource_id}",
                       Merge([denied_action |-> action], metadata))
            EXCEPT !.resource_type = resource_type, !.resource_id = resource_id,
                   !.severity = "warning", !.outcome = "failure", !.reason = reason])

\* AuditLogger.data_access
data_access(user_id, resource_type, resource_id, action, metadata) ==
    log_event_of(
        [SecurityEvent(action, user_id, None, None,
                       "Data {action}: {resource_type}/{resource_id}", metadata)
            EXCEPT !.resource_type = resource_type, !.resource_id = resource_id])

\* AuditLogger.security_alert
security_alert(alert_type, severity, actor_id, ip_address, details, metadata) ==
    log_event_of(
        [SecurityEvent("security.alert", actor_id, ip_address, None,
                       IF Truthy(details) THEN details ELSE "Security alert: {alert_type}",
                       Merge([alert_type |-> alert_type], metadata))
            EXCEPT !.severity = severity])

\* AuditLogger.rate_limit_exceeded
rate_limit_exceeded(ip_address, endpoint, limit, window, user_id, metadata) ==
    log_event_of(
        [SecurityEvent("security.rate_limit", user_id, ip_address, None,
                       "Rate limit exceeded: {endpoint} ({limit}/{window}s)",
                       Merge([endpoint |-> endpoint, limit |-> limit, window |-> window], metadata))
            EXCEPT !.severity = "warning"])

\* An event object kept by the code that built it.  The dataclass stores its
\* own fields only; madeCid and madeCtx remember what was ambient then.
PendingEvent(ev, c, x, t) ==
    [event |-> ev, madeCid |-> get_correlation_id(c, t), madeCtx |-> get_request_context(x, t)]

\* The ambient values of the moment the event was built, merged instead of
\* those of the moment of the call.
SerializeAsConstructed(p, c, x, t) ==
    to_dict(p.event, [c EXCEPT ![t] = p.madeCid], [x EXCEPT ![t] = p.madeCtx], t)

\* event.to_dict() called in task t on an event built earlier.
Serialize(p, c, x, t) == to_dict(p.event, c, x, t)

-----------------------------------------------------------------------------
(* logging/formatters.py                                                   *)

\* The records handed to the formatter: no exc_info, no extra fields.
LogRecordSamples == { [levelname |-> "INFO", name |-> "app", msg |-> "hello"] }

\* The correlation_id field written for every record.
JsonFormatter_format_Always(rec, c, x, t) ==
    [k \in {"timestamp", "level", "logger", "message", "environment", "source", "correlation_id"} |->
        CASE k = "correlation_id" -> get_correlation_id(c, t)
          [] k = "level" -> rec.levelname
          [] k = "logger" -> rec.name
          [] k = "message" -> rec.msg
          [] OTHER -> k]

\* JsonFormatter.format in task t: log_entry, the dictionary json.dumps
\* writes out.  The values of timestamp, environment and source stand for
\* themselves.
JsonFormatter_format(rec, c, x, t) ==
    LET keys == {"timestamp", "level", "logger", "message", "environment", "source"}
                \cup (IF Truthy(get_correlation_id(c, t)) THEN {"correlation_id"} ELSE {})
                \cup (IF TruthyDict(get_request_context(x, t)) THEN {"request"} ELSE {})
    IN  [k \in keys |->
            CASE k = "correlation_id" -> get_correlation_id(c, t)
              [] k = "request" -> get_request_context(x, t)[1]
              [] k = "level" -> rec.levelname
              [] k = "logger" -> rec.name
              [] k = "message" -> rec.msg
              [] OTHER -> k]

\* AuditLogger._severity_to_level
severity_to_level(severity) ==
    CASE severity = "debug" -> "DEBUG"
      [] severity = "info" -> "INFO"
      [] severity = "warning" -> "WARNING"
      [] severity = "error" -> "ERROR"
      [] severity = "critical" -> "CRITICAL"
      [] OTHER -> "INFO"

-----------------------------------------------------------------------------
(* logging/config.py                                                       *)

\* The numeric value of a logging level; NOTSET is 0.
LevelNo(l) ==
    CASE l = "NOTSET" -> 0 [] l = "DEBUG" -> 10 [] l = "INFO" -> 20
      [] l = "WARNING" -> 30 [] l = "ERROR" -> 40 [] l = "CRITICAL" -> 50

\* A handler: the sink it writes to, its own level, and the number of
\* rotated files it keeps (0 for the console).
Handler(sink, level, backupCount) == [sink |-> sink, level |-> level, backupCount |-> backupCount]

\* configure_logging, lines 78-95: the handler of the logger 'audit'.
ConfigureAudit(rh, ah, prop, log_file, backup_count) ==
    IF log_file # None
    THEN [root |-> rh,
          audit |-> Append(ah, Handler("audit", "INFO", backup_count * 2)),
          propagate |-> FALSE]
    ELSE [root |-> rh, audit |-> ah, propagate |-> prop]

\* configure_logging, lines 36-75: the handlers of the root logger.
ConfigureRoot(log_file, backup_count) ==
    <<Handler("console", "NOTSET", 0)>>
    \o (IF log_file # None THEN <<Handler("file", "NOTSET", backup_count)>> ELSE <<>>)

\* Logger.callHandlers for a record of level lv logged on the logger 'audit':
\* its own handlers, then the root's when it propagates.
callHandlers(lv, ah, rh, prop) ==
    LET hs == ah \o (IF prop THEN rh ELSE <<>>)
        RECURSIVE Sinks(_)
        Sinks(i) ==
            IF i > Len(hs) THEN <<>>
            ELSE (IF LevelNo(lv) >= LevelNo(hs[i].level) THEN <<hs[i].sink>> ELSE <<>>) \o Sinks(i + 1)
    IN  Sinks(1)

\* Logger.log(level, ...) on the logger 'audit', whose own level is not set:
\* the record is dropped below the root's level.
AuditLoggerLog(lv, rl, ah, rh, prop) ==
    IF LevelNo(lv) >= LevelNo(rl) THEN callHandlers(lv, ah, rh, prop) ELSE <<>>

-----------------------------------------------------------------------------
(* logging/formatters.py: MaskingFilter                                    *)

\* A text is the sequence of its characters.  The character classes of the
\* patterns, over ASCII.
Lower == {"a", "b", "c", "d", "e", "f", "g", "h", "i", "j", "k", "l", "m", "n", "o", "p", "q", "r", "s", "t", "u", "v", "w", "x", "y", "z"}

Upper == {"A", "B", "C", "D", "E", "F", "G", "H", "I", "J", "K", "L", "M", "N", "O", "P", "Q", "R", "S", "T", "U", "V", "W", "X", "Y", "Z"}

Digit == {"0", "1", "2", "3", "4", "5", "6", "7", "8", "9"}

Alnum == Lower \cup Upper \cup Digit

\* \w, the characters \b tells apart from the others.
Word == Alnum \cup {"_"}

\* \s
Space == {" ", "\t", "\n"}

Quote == {"\"", "'"}

\* One element of a pattern: a character class (negated when neg) repeated
\* from min to max times, max < 0 for no upper limit, greedy unless lazy; wb
\* is the assertion \b; a literal piece has in seq, for each of its
\* characters, the characters that match it.
Rep(cls, min, max) ==
    [cls |-> cls, neg |-> FALSE, min |-> min, max |-> max, lazy |-> FALSE, wb |-> FALSE,
     seq |-> <<>>]

NotRep(cls, min, max) ==
    [cls |-> cls, neg |-> TRUE, min |-> min, max |-> max, lazy |-> FALSE, wb |-> FALSE,
     seq |-> <<>>]

WordBoundary ==
    [cls |-> {}, neg |-> FALSE, min |-> 0, max |-> 0, lazy |-> FALSE, wb |-> TRUE,
     seq |-> <<>>]

\* .*? under re.DOTALL
AnyLazy ==
    [cls |-> {}, neg |-> TRUE, min |-> 0, max |-> -1, lazy |-> TRUE, wb |-> FALSE,
     seq |-> <<>>]

\* A literal piece of a pattern.
Lit(s) ==
    << [cls |-> {}, neg |-> FALSE, min |-> Len(s), max |-> Len(s), lazy |-> FALSE, wb |-> FALSE,
        seq |-> [i \in 1..Len(s) |-> {s[i]}]] >>

\* A literal piece under re.IGNORECASE: lo and up are the two cases.
LitIgnoreCase(lo, up) ==
    << [cls |-> {}, neg |-> FALSE, min |-> Len(lo), max |-> Len(lo), lazy |-> FALSE, wb |-> FALSE,
        seq |-> [i \in 1..Len(lo) |-> {lo[i], up[i]}]] >>

\* Pieces of a replacement: \n (the text of part n of the pattern) or literal.
Group(n) == [part |-> n, lit |-> <<>>]

Text(s) == [part |-> 0, lit |-> s]

Stars == <<"*", "*", "*", "*">>

\* PATTERNS[1]: (://[^:]+:)[^@]+(@) -> \1****\2
UrlPasswordRule ==
    [parts |-> << Lit(<<":", "/", "/">>) \o <<NotRep({":"}, 1, -1)>> \o Lit(<<":">>),
                  <<NotRep({"@"}, 1, -1)>>,
                  Lit(<<"@">>) >>,
     repl |-> <<Group(1), Text(Stars), Group(3)>>]

\* PATTERNS[2]: (api[_-]?key["']?\s*[:=]\s*["']?)[a-zA-Z0-9_-]+ -> \1****
ApiKeyRule ==
    [parts |-> << Lit(<<"a", "p", "i">>) \o <<Rep({"_", "-"}, 0, 1)>> \o Lit(<<"k", "e", "y">>)
                  \o <<Rep(Quote, 0, 1), Rep(Space, 0, -1), Rep({":", "="}, 1, 1),
                        Rep(Space, 0, -1), Rep(Quote, 0, 1)>>,
                  <<Rep(Alnum \cup {"_", "-"}, 1, -1)>> >>,
     repl |-> <<Group(1), Text(Stars)>>]

\* PATTERNS[3]: (token["']?\s*[:=]\s*["']?)[a-zA-Z0-9_.-]+ -> \1****
TokenRule ==
    [parts |-> << Lit(<<"t", "o", "k", "e", "n">>)
                  \o <<Rep(Quote, 0, 1), Rep(Space, 0, -1), Rep({":", "="}, 1, 1),
                        Rep(Space, 0, -1), Rep(Quote, 0, 1)>>,
                  <<Rep(Alnum \cup {"_", ".", "-"}, 1, -1)>> >>,
     repl |-> <<Group(1), Text(Stars)>>]

\* PATTERNS[4]: (bearer\s+)[a-zA-Z0-9_.-]+ with re.IGNORECASE -> \1****
BearerRule ==
    [parts |-> << LitIgnoreCase(<<"b", "e", "a", "r", "e", "r">>, <<"B", "E", "A", "R", "E", "R">>) \o <<Rep(Space, 1, -1)>>,
                  <<Rep(Alnum \cup {"_", ".", "-"}, 1, -1)>> >>,
     repl |-> <<Group(1), Text(Stars)>>]

\* PATTERNS[5]: (authorization["']?\s*[:=]\s*["']?)[^\s"']+ -> \1****
AuthorizationRule ==
    [parts |-> << Lit(<<"a", "u", "t", "h", "o", "r", "i", "z", "a", "t", "i", "o", "n">>)
                  \o <<Rep(Quote, 0, 1), Rep(Space, 0, -1), Rep({":", "="}, 1, 1),
                        Rep(Space, 0, -1), Rep(Quote, 0, 1)>>,
                  <<NotRep(Space \cup Quote, 1, -1)>> >>,
     repl |-> <<Group(1), Text(Stars)>>]

\* PATTERNS[6]: (secret[_-]?key["']?\s*[:=]\s*["']?)[a-zA-Z0-9_-]+ -> \1****
SecretKeyRule ==
    [parts |-> << Lit(<<"s", "e", "c", "r", "e", "t">>) \o <<Rep({"_", "-"}, 0, 1)>> \o Lit(<<"k", "e", "y">>)
                  \o <<Rep(Quote, 0, 1), Rep(Space, 0, -1), Rep({":", "="}, 1, 1),
                        Rep(Space, 0, -1), Rep(Quote, 0, 1)>>,
                  <<Rep(Alnum \cup {"_", "-"}, 1, -1)>> >>,
     repl |-> <<Group(1), Text(Stars)>>]

\* PATTERNS[7]: (password["']?\s*[:=]\s*["']?)[^"',\s}]+ -> \1****
PasswordRule ==
    [parts |-> << Lit(<<"p", "a", "s", "s", "w", "o", "r", "d">>)
                  \o <<Rep(Quote, 0, 1), Rep(Space, 0, -1), Rep({":", "="}, 1, 1),
                        Rep(Space, 0, -1), Rep(Quote, 0, 1)>>,
                  <<NotRep(Quote \cup Space \cup {",", "}"}, 1, -1)>> >>,
     repl |-> <<Group(1), Text(Stars)>>]

\* PATTERNS[8]: \b(\d{4}[- ]?\d{4}[- ]?\d{4}[- ]?)\d{4}\b -> \1****
CardRule ==
    [parts |-> << <<WordBoundary,
                    Rep(Digit, 4, 4), Rep({"-", " "}, 0, 1), Rep(Digit, 4, 4), Rep({"-", " "}, 0, 1),
                    Rep(Digit, 4, 4), Rep({"-", " "}, 0, 1)>>,
                  <<Rep(Digit, 4, 4), WordBoundary>> >>,
     repl |-> <<Group(1), Text(Stars)>>]

\* PATTERNS[9]: \b(\d{3})-(\d{2})-\d{4}\b -> \1-\2-****
SsnRule ==
    [parts |-> << <<WordBoundary, Rep(Digit, 3, 3)>>,
                  Lit(<<"-">>),
                  <<Rep(Digit, 2, 2)>>,
                  Lit(<<"-">>) \o <<Rep(Digit, 4, 4), WordBoundary>> >>,
     repl |-> <<Group(1), Text(<<"-">>), Group(3), Text(<<"-">> \o Stars)>>]

\* PATTERNS[10]: ([a-zA-Z0-9._%+-]+)@([a-zA-Z0-9.-]+\.[a-zA-Z]{2,}) -> ***@\2
EmailRule ==
    [parts |-> << <<Rep(Alnum \cup {".", "_", "%", "+", "-"}, 1, -1)>>,
                  Lit(<<"@">>),
                  <<Rep(Alnum \cup {".", "-"}, 1, -1)>> \o Lit(<<".">>)
                      \o <<Rep(Lower \cup Upper, 2, -1)>> >>,
     repl |-> <<Text(<<"*", "*", "*", "@">>), Group(3)>>]

\* PATTERNS[11]: (AKIA)[A-Z0-9]{16} -> \1****************
AwsKeyRule ==
    [parts |-> << Lit(<<"A", "K", "I", "A">>), <<Rep(Upper \cup Digit, 16, 16)>> >>,
     repl |-> <<Group(1), Text(Stars \o Stars \o Stars \o Stars)>>]

\* PATTERNS[12], with re.DOTALL:
\* -----BEGIN [A-Z ]+ PRIVATE KEY-----.*?-----END [A-Z ]+ PRIVATE KEY-----
\* -> [REDACTED PRIVATE KEY]
PrivateKeyRule ==
    [parts |-> << Lit(<<"-", "-", "-", "-", "-", "B", "E", "G", "I", "N", " ">>) \o <<Rep(Upper \cup {" "}, 1, -1)>>
                      \o Lit(<<" ", "P", "R", "I", "V", "A", "T", "E", " ", "K", "E", "Y", "-", "-", "-", "-", "-">>)
                      \o <<AnyLazy>>
                      \o Lit(<<"-", "-", "-", "-", "-", "E", "N", "D", " ">>) \o <<Rep(Upper \cup {" "}, 1, -1)>>
                      \o Lit(<<" ", "P", "R", "I", "V", "A", "T", "E", " ", "K", "E", "Y", "-", "-", "-", "-", "-">>) >>,
     repl |-> <<Text(<<"[", "R", "E", "D", "A", "C", "T", "E", "D", " ", "P", "R", "I", "V", "A", "T", "E", " ", "K", "E", "Y", "]">>)>>]

\* MaskingFilter.PATTERNS
PATTERNS ==
    <<UrlPasswordRule, ApiKeyRule, TokenRule, BearerRule, AuthorizationRule, SecretKeyRule,
      PasswordRule, CardRule, SsnRule, EmailRule, AwsKeyRule, PrivateKeyRule>>

\* The elements of a rule's pattern in one sequence, and the number of
\* elements before part n.
RECURSIVE Flatten(_)
Flatten(parts) == IF parts = <<>> THEN <<>> ELSE Head(parts) \o Flatten(Tail(parts))

RECURSIVE Offset(_, _)
Offset(parts, n) == IF n = 1 THEN 0 ELSE Offset(parts, n - 1) + Len(parts[n - 1])

\* Whether the element accepts the character.
Accepts(item, ch) == IF item.neg THEN ch \notin item.cls ELSE ch \in item.cls

\* \b before position pos: exactly one of the characters around it is \w.
AtWordBoundary(text, pos) ==
    (pos > 1 /\ text[pos - 1] \in Word) # (pos <= Len(text) /\ text[pos] \in Word)

\* The most characters from position pos on the element can take.
Run(text, item, pos) ==
    IF item.seq # <<>>
    THEN (IF /\ pos + Len(item.seq) - 1 <= Len(text)
             /\ \A i \in 1..Len(item.seq) : text[pos + i - 1] \in item.seq[i]
          THEN Len(item.seq) ELSE 0)
    ELSE LET fits == {n \in 0..(Len(text) + 1 - pos) :
                         /\ (item.max < 0 \/ n <= item.max)
                         /\ \A i \in 0..(n - 1) : Accepts(item, text[pos + i])}
         IN  CHOOSE n \in fits : \A m \in fits : m <= n

NoMatch == [ok |-> FALSE, ends |-> <<>>]

\* The backtracking matcher of re: the elements k.. of pat matched from
\* position pos on; ends[i] is the position of the last character the i-th of
\* these elements took.  Of the counts of element k that let the rest of the
\* pattern match, a greedy element takes the largest and a lazy one the
\* smallest.
RECURSIVE MatchFrom(_, _, _, _)
MatchFrom(text, pat, k, pos) ==
    IF k > Len(pat) THEN [ok |-> TRUE, ends |-> <<>>]
    ELSE IF pat[k].wb
    THEN (IF AtWordBoundary(text, pos)
          THEN LET r == MatchFrom(text, pat, k + 1, pos)
               IN  [ok |-> r.ok, ends |-> <<pos - 1>> \o r.ends]
          ELSE NoMatch)
    ELSE LET hi == Run(text, pat[k], pos)
         IN  IF hi < pat[k].min THEN NoMatch
             ELSE IF hi = pat[k].min
             THEN LET r == MatchFrom(text, pat, k + 1, pos + hi)
                  IN  [ok |-> r.ok, ends |-> <<pos + hi - 1>> \o r.ends]
             ELSE LET oks == {c \in pat[k].min..hi : MatchFrom(text, pat, k + 1, pos + c).ok}
                      c == IF pat[k].lazy
                           THEN CHOOSE n \in oks : \A m \in oks : n <= m
                           ELSE CHOOSE n \in oks : \A m \in oks : m <= n
                  IN  IF oks = {} THEN NoMatch
                      ELSE [ok |-> TRUE,
                            ends |-> <<pos + c - 1>> \o MatchFrom(text, pat, k + 1, pos + c).ends]

\* The text part n of the pattern matched, for a match that began at start.
Captured(text, rule, start, ends, n) ==
    LET off == Offset(rule.parts, n)
    IN  SubSeq(text, IF off = 0 THEN start ELSE ends[off] + 1, ends[off + Len(rule.parts[n])])

\* The replacement template expanded for one match.
RECURSIVE Expand(_, _, _, _, _)
Expand(text, rule, start, ends, i) ==
    IF i > Len(rule.repl) THEN <<>>
    ELSE (IF rule.repl[i].part = 0 THEN rule.repl[i].lit
          ELSE Captured(text, rule, start, ends, rule.repl[i].part))
         \o Expand(text, rule, start, ends, i + 1)

\* pattern.sub(replacement, text) from position pos on: the leftmost match
\* is replaced and the scan resumes after it.
RECURSIVE Sub(_, _, _)
Sub(rule, text, pos) ==
    LET pat == Flatten(rule.parts)
        at  == {p \in pos..Len(text) : MatchFrom(text, pat, 1, p).ok}
        p   == CHOOSE n \in at : \A m \in at : n <= m
        m   == MatchFrom(text, pat, 1, p)
    IN  IF at = {} THEN SubSeq(text, pos, Len(text))
        ELSE SubSeq(text, pos, p - 1) \o Expand(text, rule, p, m.ends, 1)
                 \o Sub(rule, text, m.ends[Len(m.ends)] + 1)

\* The loop of _mask_sensitive_data from rule i on.
RECURSIVE ApplyFrom(_, _, _)
ApplyFrom(patterns, text, i) ==
    IF i > Len(patterns) THEN text
    ELSE ApplyFrom(patterns, Sub(patterns[i], text, 1), i + 1)

\* The rules applied last to first.
_mask_sensitive_data_Reversed(text) ==
    ApplyFrom([i \in 1..Len(PATTERNS) |-> PATTERNS[Len(PATTERNS) + 1 - i]], text, 1)

\* MaskingFilter._mask_sensitive_data
_mask_sensitive_data(text) == ApplyFrom(PATTERNS, text, 1)

-----------------------------------------------------------------------------
(* ai/tracking.py                                                          *)

\* TokenUsageRecord(...); timestamp, cost_usd and metadata are left out.
TokenUsageRecord(prompt_tokens, completion_tokens, total_tokens, model) ==
    [prompt_tokens |-> prompt_tokens, completion_tokens |-> completion_tokens,
     total_tokens |-> total_tokens, model |-> model]

\* sum(r.<field> for r in records)
RECURSIVE sum(_, _)
sum(records, field) ==
    IF records = <<>> THEN 0 ELSE Head(records)[field] + sum(Tail(records), field)

\* TokenTracker.record: the list after the append.
record(records, usage) == Append(records, usage)

\* A total that adds up the total_tokens the records carry.
get_total_StoredTotals(records) ==
    TokenUsageRecord(sum(records, "prompt_tokens"), sum(records, "completion_tokens"),
                     sum(records, "total_tokens"), "")

\* TokenTracker.get_total
get_total(records) ==
    LET total_prompt == sum(records, "prompt_tokens")
        total_completion == sum(records, "completion_tokens")
    IN  TokenUsageRecord(total_prompt, total_completion, total_prompt + total_completion, "")

\* The records of one model, in order.
ByModel(records, model) == SelectSeq(records, LAMBDA r : r.model = model)

\* TokenTracker.get_by_model
get_by_model(records) ==
    [model \in {records[i].model : i \in DOMAIN records} |->
        LET rs == ByModel(records, model)
            total_prompt == sum(rs, "prompt_tokens")
            total_completion == sum(rs, "completion_tokens")
        IN  TokenUsageRecord(total_prompt, total_completion, total_prompt + total_completion, model)]

\* TokenTracker.clear
clear(records) == <<>>

\* TokenTracker.record_count
record_count(records) == Len(records)

-----------------------------------------------------------------------------
(* ai/__init__.py                                                          *)

\* What a call gave its caller: the exception it raised ("" for none) and the
\* instance it returned (0 for none).
Returned(instance) == [raised |-> "", instance |-> instance]

RaisedError(name) == [raised |-> name, instance |-> 0]

\* A factory that builds a client on every call.
get_ai_client_Fresh(client, n, provider, has_openai) ==
    IF provider = "openai"
    THEN IF ~has_openai
         THEN [client |-> client, created |-> n, result |-> RaisedError("AuthenticationError")]
         ELSE [client |-> n + 1, created |-> n + 1, result |-> Returned(n + 1)]
    ELSE [client |-> client, created |-> n, result |-> RaisedError("ValueError")]

\* get_ai_client(provider) with the holder at client and n instances built so
\* far.  OpenAIClient() raises AuthenticationError when no API key is set.
get_ai_client(client, n, provider, has_openai) ==
    IF provider = "openai"
    THEN IF client = 0
         THEN IF ~has_openai
              THEN [client |-> client, created |-> n, result |-> RaisedError("AuthenticationError")]
              ELSE [client |-> n + 1, created |-> n + 1, result |-> Returned(n + 1)]
         ELSE [client |-> client, created |-> n, result |-> Returned(client)]
    ELSE [client |-> client, created |-> n, result |-> RaisedError("ValueError")]

-----------------------------------------------------------------------------
(* logging/middleware.py                                                   *)

\* A path is the sequence of the pieces of its text, so that str.startswith
\* is the prefix relation: "/health" is <<"/he", "alth">>.
StartsWith(s, p) == Len(p) <= Len(s) /\ SubSeq(s, 1, Len(p)) = p

\* exclude_paths or ["/health", "/metrics", "/favicon.ico"]
exclude_paths == {<<"/he", "alth">>, <<"/metrics">>, <<"/favicon.ico">>}

\* Exclusion by equality instead of by prefix.
IsExcludedExact(rq) == rq.path \in exclude_paths

IsExcluded(rq) == \E p \in exclude_paths : StartsWith(rq.path, p)

NoUser == [present |-> FALSE, hasId |-> FALSE, id |-> None]

\* The requests the model draws from.  xcid, xrid, xri, xuid and ua are the
\* headers X-Correlation-ID, X-Request-ID, X-Real-IP, X-User-ID and User-Agent
\* (None when not sent); xff is X-Forwarded-For split at its commas; client is
\* request.client.host (None without a peer); stateUser is request.state.user.
RequestSamples ==
    { [path |-> <<"/api">>, method |-> "GET", xcid |-> "cid-a", xrid |-> "rid-x",
       xff |-> <<>>, xri |-> None, client |-> "10.0.0.9", ua |-> "curl",
       stateUser |-> NoUser, xuid |-> "u7"],
      [path |-> <<"/api">>, method |-> "POST", xcid |-> None, xrid |-> "rid-b",
       xff |-> <<"1.1.1.1", "2.2.2.2">>, xri |-> "3.3.3.3", client |-> "10.0.0.9", ua |-> None,
       stateUser |-> [present |-> TRUE, hasId |-> TRUE, id |-> "alice"], xuid |-> "u7"],
      [path |-> <<"/he">>, method |-> "GET", xcid |-> "", xrid |-> None,
       xff |-> <<>>, xri |-> "3.3.3.3", client |-> None, ua |-> "curl",
       stateUser |-> NoUser, xuid |-> None],
      [path |-> <<"/he", "alth">>, method |-> "GET", xcid |-> "cid-a", xrid |-> None,
       xff |-> <<>>, xri |-> None, client |-> "10.0.0.9", ua |-> "probe",
       stateUser |-> NoUser, xuid |-> None],
      [path |-> <<"/he", "alth", "z">>, method |-> "GET", xcid |-> None, xrid |-> None,
       xff |-> <<>>, xri |-> None, client |-> None, ua |-> None,
       stateUser |-> NoUser, xuid |-> None] }

\* The two headers looked up in the opposite order.
mw_get_correlation_id_RequestIdFirst(rq, n) ==
    IF Truthy(rq.xrid) THEN rq.xrid
    ELSE IF Truthy(rq.xcid) THEN rq.xcid
    ELSE Uuid4(n + 1)

\* RequestLoggingMiddleware._get_correlation_id
mw_get_correlation_id(rq, n) ==
    IF Truthy(rq.xcid) THEN rq.xcid
    ELSE IF Truthy(rq.xrid) THEN rq.xrid
    ELSE Uuid4(n + 1)

\* Whether _get_correlation_id reached uuid.uuid4().
mw_generates(rq) == ~Truthy(rq.xcid) /\ ~Truthy(rq.xrid)

\* RequestLoggingMiddleware._get_client_ip
mw_get_client_ip(rq) ==
    IF rq.xff # <<>> THEN rq.xff[1]
    ELSE IF Truthy(rq.xri) THEN rq.xri
    ELSE IF rq.client # None THEN rq.client
    ELSE "unknown"

\* The header consulted whenever the request state yields no id.
mw_get_user_id_HeaderFallback(rq) ==
    IF rq.stateUser.present /\ rq.stateUser.hasId /\ rq.stateUser.id # None
    THEN rq.stateUser.id
    ELSE rq.xuid

\* RequestLoggingMiddleware._get_user_id
mw_get_user_id(rq) ==
    IF rq.stateUser.present
    THEN (IF rq.stateUser.hasId THEN rq.stateUser.id ELSE None)
    ELSE rq.xuid

\* request.headers.get("user-agent", "")
mw_user_agent(rq) == IF rq.ua = None THEN "" ELSE rq.ua

\* What the downstream application (call_next) produces: a response with a
\* status code and the X-Correlation-ID header it set itself (None when it set
\* none), or a raised exception.  isException tells an Exception subclass from
\* a bare BaseException such as asyncio.CancelledError.
Response(status, hdr) ==
    [kind |-> "response", status |-> status, xcid |-> hdr,
     etype |-> None, emsg |-> None, isException |-> FALSE]

Raised(etype, emsg, isExc) ==
    [kind |-> "exception", status |-> 0, xcid |-> None,
     etype |-> etype, emsg |-> emsg, isException |-> isExc]

NoResult ==
    [kind |-> "none", status |-> 0, xcid |-> None,
     etype |-> None, emsg |-> None, isException |-> FALSE]

CancelledError == Raised("CancelledError", "", FALSE)

DownstreamResults ==
    { Response(200, None), Response(404, "ds-own"), Response(500, None),
      Raised("ValueError", "boom", TRUE), CancelledError }

\* The exception a failing logging call raises.
LoggingFailure == Raised("LoggingError", "sink", TRUE)

\* A bare `except:`, which catches cancellation too.
ExceptBaseException(res) == res.kind = "exception"

\* `except Exception`: catches Exception subclasses only.
ExceptException(res) == res.kind = "exception" /\ res.isException

\* One record handed to a logger in task t.  JsonFormatter.format reads the
\* ambient correlation id and request context while the call runs.
LogRecord(kind, level, data, c, x, t) ==
    [kind |-> kind, level |-> level, data |-> data,
     ambCid |-> get_correlation_id(c, t), ambCtx |-> get_request_context(x, t)]

NoLocals == [correlation_id |-> None, client_ip |-> None, user_agent |-> None, user_id |-> None]

\* dispatch, lines 74-77: the request metadata.
Locals(rq, n) ==
    [correlation_id |-> mw_get_correlation_id(rq, n),
     client_ip      |-> mw_get_client_ip(rq),
     user_agent     |-> mw_user_agent(rq),
     user_id        |-> mw_get_user_id(rq)]

\* dispatch, lines 86-95: request_log.
RequestLog(rq, l) ==
    [method |-> rq.method, path |-> rq.path, ip_address |-> l.client_ip,
     user_agent |-> l.user_agent, user_id |-> l.user_id,
     correlation_id |-> l.correlation_id]

\* dispatch, lines 129-137: response_log.
ResponseLog(rq, l, res) ==
    [method |-> rq.method, path |-> rq.path, status_code |-> res.status,
     ip_address |-> l.client_ip, user_id |-> l.user_id,
     correlation_id |-> l.correlation_id]

\* The comparisons written with > instead of >=.
CompletionLevelStrict(status) ==
    IF status > 500 THEN "error" ELSE IF status > 400 THEN "warning" ELSE "info"

\* dispatch, lines 140-154: the level of the completion record.
CompletionLevel(status) ==
    IF status >= 500 THEN "error" ELSE IF status >= 400 THEN "warning" ELSE "info"

\* dispatch, lines 107-114: the LogContext the downstream call runs in.
DispatchLogContext(rq, l) ==
    [correlation_id |-> l.correlation_id, user_id |-> l.user_id, session_id |-> None,
     ip_address |-> l.client_ip, user_agent |-> l.user_agent, method |-> rq.method,
     path |-> rq.path, extra |-> <<>>]

\* A 'request started' record that never reaches the sink.
StartedRecordsDropped(rq, l, c, x, t) == <<>>

\* dispatch, lines 101-104: the 'request started' record.
StartedRecords(rq, l, c, x, t) ==
    <<LogRecord("started", "info", RequestLog(rq, l), c, x, t)>>

\* headers.setdefault: a header the handler set itself is kept.
WithCorrelationHeaderDefault(res, id) ==
    IF res.xcid # None THEN res ELSE [res EXCEPT !.xcid = id]

\* dispatch, line 157: response.headers["X-Correlation-ID"] = correlation_id.
WithCorrelationHeader(res, id) == [res EXCEPT !.xcid = id]

\* _log_error, lines 290-307: the 'request failed' record.
ErrorRecord(rq, l, res, c, x, t) ==
    LogRecord("failed", "error",
              [type |-> res.etype, message |-> res.emsg, method |-> rq.method,
               path |-> rq.path, ip_address |-> l.client_ip,
               user_agent |-> l.user_agent, user_id |-> l.user_id],
              c, x, t)

\* _log_error, lines 310-323: the api.error security event.
ErrorEvent(rq, l, res) ==
    SecurityEvent(API_ERROR, l.user_id, l.client_ip, l.user_agent,
                  "Request error: " \o res.etype \o ": " \o res.emsg,
                  [method |-> rq.method, path |-> rq.path, error_type |-> res.etype])

\* An error path that logs and skips the audit record.
mw_log_error_NoAudit(rq, l, res, c, x, t) ==
    [log |-> <<ErrorRecord(rq, l, res, c, x, t)>>, audit |-> <<>>]

\* _log_error: what it hands to the module logger and to the audit logger.
mw_log_error(rq, l, res, c, x, t) ==
    [log   |-> <<ErrorRecord(rq, l, res, c, x, t)>>,
     audit |-> <<log_event(ErrorEvent(rq, l, res), c, x, t)>>]

\* Requests are numbered in the order in which they arrive.
\* str.lower on the header names requests carry.
lower(k) ==
    CASE k = "Authorization" -> "authorization"
      [] k = "COOKIE" -> "cookie"
      [] k = "X-Api-Key" -> "x-api-key"
      [] k = "X-CSRF-Token" -> "x-csrf-token"
      [] k = "Accept" -> "accept"
      [] OTHER -> k

sensitive_headers == {"authorization", "cookie", "x-api-key", "x-auth-token", "x-csrf-token"}

REDACTED == "[REDACTED]"

\* The names among the items of a header collection.
HeaderKeys(items) == {items[i][1] : i \in DOMAIN items}

\* The value a dict built from the items holds under k: a later item replaces
\* an earlier one that has the same key.
LastValue(items, k) ==
    LET i == CHOOSE i \in DOMAIN items :
                 /\ items[i][1] = k
                 /\ \A j \in DOMAIN items : items[j][1] = k => j <= i
    IN  items[i][2]

\* A snapshot that compares the names as written with the deny-list.
_safe_headers_CaseSensitive(items) ==
    [k \in HeaderKeys(items) |->
        IF k \notin sensitive_headers THEN LastValue(items, k) ELSE REDACTED]

\* _safe_headers over headers.items().
_safe_headers(items) ==
    [k \in HeaderKeys(items) |->
        IF lower(k) \notin sensitive_headers THEN LastValue(items, k) ELSE REDACTED]

\* What request.body() does: it raises, or it returns bytes.
ReadFailure == [raised |-> TRUE, bytes |-> <<>>]

BodyBytes(b) == [raised |-> FALSE, bytes |-> b]

\* The U+FFFD character bytes.decode(errors="replace") puts for bytes that are
\* not UTF-8.
ReplacementChar == "U+FFFD"

\* bytes.decode("utf-8", errors="replace") over the bytes 61 (a), C3 A9 (the
\* two bytes of U+00E9) and FF (never valid).
RECURSIVE decode(_)
decode(b) ==
    IF b = <<>> THEN <<>>
    ELSE IF Head(b) = "61" THEN <<"a">> \o decode(Tail(b))
    ELSE IF Head(b) = "C3" /\ Len(b) >= 2 /\ b[2] = "A9" THEN <<"U+00E9">> \o decode(Tail(Tail(b)))
    ELSE <<ReplacementChar>> \o decode(Tail(b))

\* The characters of '...[truncated]'.
TruncatedSuffix == <<".", ".", ".", "[", "t", "r", "u", "n", "c", "a", "t", "e", "d", "]">>

\* The values of the body field: None, or a text.
NoneBody == [none |-> TRUE, text |-> <<>>]

BodyText(s) == [none |-> FALSE, text |-> s]

\* s[:n] for n >= 0.
Prefix(s, n) == SubSeq(s, 1, IF n < Len(s) THEN n ELSE Len(s))

\* A body capped by the number of its bytes instead of its characters.
_get_request_body_ByteLength(body, max_body_length) ==
    IF body.raised \/ body.bytes = <<>> THEN NoneBody
    ELSE IF Len(body.bytes) > max_body_length
         THEN BodyText(Prefix(decode(body.bytes), max_body_length) \o TruncatedSuffix)
         ELSE BodyText(decode(body.bytes))

\* _get_request_body: an exception of request.body() is swallowed.
_get_request_body(body, max_body_length) ==
    IF body.raised THEN NoneBody
    ELSE IF body.bytes = <<>> THEN NoneBody
    ELSE LET body_str == decode(body.bytes)
         IN  IF Len(body_str) > max_body_length
             THEN BodyText(Prefix(body_str, max_body_length) \o TruncatedSuffix)
             ELSE BodyText(body_str)

\* The headers and body entries of request_log; body is <<>> when the dict
\* has no such key and <<v>> when it holds v.
StartedFields(rq, c) ==
    [headers |-> _safe_headers(rq.headers),
     body    |-> IF c.log_request_body /\ rq.method \in {"POST", "PUT", "PATCH"}
                 THEN <<_get_request_body(rq.body, c.max_body_length)>>
                 ELSE <<>>]

Arrives(t) == pc[t] = "idle" /\ (IF t = 1 THEN TRUE ELSE pc[t - 1] # "idle")

\* dispatch from its entry to its first await of call_next (line 71 or 116).
\* fault = "started" makes the logger.info call of line 101 raise.
DispatchEnter(t, rq, fault) ==
    /\ Arrives(t)
    /\ req' = [req EXCEPT ![t] = rq]
    /\ IF IsExcluded(rq)
       THEN /\ fault = "none"
            /\ pc' = [pc EXCEPT ![t] = "call_next_excluded"]
            /\ calls' = [calls EXCEPT ![t] = @ + 1]
            /\ dsCid' = [dsCid EXCEPT ![t] = cid[t]]
            /\ dsCtx' = [dsCtx EXCEPT ![t] = rctx[t]]
            /\ UNCHANGED <<loc, cid, rctx, log, uuidCount, outcome>>
       ELSE LET l    == Locals(rq, uuidCount)
                n1   == uuidCount + (IF mw_generates(rq) THEN 1 ELSE 0)
                s    == set_correlation_id(cid, t, l.correlation_id, n1)
                recs == StartedRecords(rq, l, s.cid, rctx, t)
                e    == LogContext__enter__(s.cid, rctx, t, DispatchLogContext(rq, l), n1 + s.gen)
            IN  /\ loc' = [loc EXCEPT ![t] = l]
                /\ IF fault = "started"
                   THEN /\ cid' = s.cid
                        /\ uuidCount' = n1 + s.gen
                        /\ pc' = [pc EXCEPT ![t] = "done"]
                        /\ outcome' = [outcome EXCEPT ![t] = LoggingFailure]
                        /\ UNCHANGED <<rctx, log, calls, dsCid, dsCtx>>
                   ELSE /\ log' = [log EXCEPT ![t] = @ \o recs]
                        /\ cid' = e.cid
                        /\ rctx' = e.rctx
                        /\ uuidCount' = n1 + s.gen + e.gen
                        /\ pc' = [pc EXCEPT ![t] = "call_next"]
                        /\ calls' = [calls EXCEPT ![t] = @ + 1]
                        /\ dsCid' = [dsCid EXCEPT ![t] = e.cid[t]]
                        /\ dsCtx' = [dsCtx EXCEPT ![t] = e.rctx[t]]
                        /\ UNCHANGED outcome
    /\ UNCHANGED <<dsResult, audit, apiVars, flowVars, emitVars, logVars, maskVars, extVars>>

\* The downstream application runs in the child task call_next started: it
\* may log (reading the child's copy of the context) and then ends.  The
\* records of the handler of an excluded request are not kept.
Downstream(t, res, logs) ==
    /\ pc[t] \in {"call_next", "call_next_excluded"}
    /\ logs => pc[t] = "call_next"
    /\ dsResult' = [dsResult EXCEPT ![t] = res]
    /\ pc' = [pc EXCEPT ![t] = IF pc[t] = "call_next" THEN "resume" ELSE "resume_excluded"]
    /\ log' = IF logs
              THEN [log EXCEPT ![t] = Append(@, LogRecord("handler", "info", <<>>, dsCid, dsCtx, t))]
              ELSE log
    /\ UNCHANGED <<req, loc, cid, rctx, dsCid, dsCtx, outcome, audit, calls, uuidCount, apiVars, flowVars, emitVars, logVars, maskVars, extVars>>

\* dispatch, line 71: return await call_next(request).
ResumeExcluded(t) ==
    /\ pc[t] = "resume_excluded"
    /\ pc' = [pc EXCEPT ![t] = "done"]
    /\ outcome' = [outcome EXCEPT ![t] = dsResult[t]]
    /\ UNCHANGED <<req, loc, cid, rctx, dsCid, dsCtx, dsResult, log, audit, calls, uuidCount, apiVars, flowVars, emitVars, logVars, maskVars, extVars>>

\* dispatch from the end of its await of call_next (line 116) to its end.
\* fault names the logging call that raises: "failed" (logger.exception, line
\* 290), "audit" (log_event, line 310) or "completed" (lines 140-154).
Resume(t, fault) ==
    /\ pc[t] = "resume"
    /\ pc' = [pc EXCEPT ![t] = "done"]
    /\ LET res  == dsResult[t]
           rq   == req[t]
           l    == loc[t]
           x    == LogContext__aexit__(cid, rctx, t)
           err  == mw_log_error(rq, l, res, cid, rctx, t)
       IN  /\ cid' = x.cid
           /\ rctx' = x.rctx
           /\ IF ExceptException(res)
              THEN /\ fault \in {"none", "failed", "audit"}
                   /\ log' = IF fault = "failed" THEN log
                             ELSE [log EXCEPT ![t] = @ \o err.log]
                   /\ audit' = IF fault = "none"
                               THEN [audit EXCEPT ![t] = @ \o err.audit]
                               ELSE audit
                   /\ outcome' = [outcome EXCEPT ![t] = IF fault = "none" THEN res ELSE LoggingFailure]
              ELSE IF res.kind = "exception"
              THEN /\ fault = "none"
                   /\ outcome' = [outcome EXCEPT ![t] = res]
                   /\ UNCHANGED <<log, audit>>
              ELSE /\ fault \in {"none", "completed"}
                   /\ log' = IF fault = "completed" THEN log
                             ELSE [log EXCEPT ![t] = Append(@,
                                     LogRecord("completed", CompletionLevel(res.status),
                                               ResponseLog(rq, l, res), x.cid, x.rctx, t))]
                   /\ outcome' = [outcome EXCEPT ![t] =
                                     IF fault = "completed" THEN LoggingFailure
                                     ELSE WithCorrelationHeader(res, l.correlation_id)]
                   /\ UNCHANGED audit
    /\ UNCHANGED <<req, loc, dsCid, dsCtx, dsResult, calls, uuidCount, apiVars, flowVars, emitVars, logVars, maskVars, extVars>>

-----------------------------------------------------------------------------
(* Direct callers of logging/context.py: a task runs context operations    *)
(* and LogContext blocks, possibly nested, whose bodies may raise.         *)

\* Task u started without a copy of the spawning task's context.
copy_context_Fresh(var, t, u) == var

\* asyncio.create_task(...) in task t: the child u runs in a copy of t's
\* context, so each ContextVar starts in u with the value it has in t.
copy_context(var, t, u) == [var EXCEPT ![u] = ContextVarGet(var, t)]

\* The identifiers callers pass; None and "" ask for a generated one.
CallerIds == {None, "", "cid-a"}

\* The LogContext objects callers build; path <<>> is the default None.
LogContextSamples ==
    { [correlation_id |-> None, user_id |-> None, session_id |-> None, ip_address |-> None,
       user_agent |-> None, method |-> None, path |-> <<>>, extra |-> <<>>],
      [correlation_id |-> "cid-b", user_id |-> "u7", session_id |-> "", ip_address |-> None,
       user_agent |-> None, method |-> None, path |-> <<>>, extra |-> [action |-> "login"]] }

\* The dictionaries callers pass to set_request_context; <<>> is {}.
RequestContextSamples == { [user_id |-> "u9"], <<>> }

ApiStep(t, op) ==
    /\ pc[t] = "idle"
    /\ ops < MaxOps
    /\ ops' = ops + 1
    /\ last' = [last EXCEPT ![t] = op]
    /\ UNCHANGED <<mwVars, flowVars, emitVars, logVars, maskVars, extVars>>

ApiSetCorrelationId(t, id) ==
    /\ ApiStep(t, "set")
    /\ LET s == set_correlation_id(cid, t, id, uuidCount)
       IN  cid' = s.cid /\ uuidCount' = uuidCount + s.gen
    /\ UNCHANGED <<rctx, scope>>

ApiClearCorrelationId(t) ==
    /\ ApiStep(t, "clear")
    /\ cid' = clear_correlation_id(cid, t)
    /\ UNCHANGED <<rctx, scope, uuidCount>>

ApiSetRequestContext(t, d) ==
    /\ ApiStep(t, "set_request")
    /\ rctx' = set_request_context(rctx, t, d)
    /\ UNCHANGED <<cid, scope, uuidCount>>

ApiClearRequestContext(t) ==
    /\ ApiStep(t, "clear_request")
    /\ rctx' = clear_request_context(rctx, t)
    /\ UNCHANGED <<cid, scope, uuidCount>>

\* with LogContext(...): / async with LogContext(...): entering the block.
\* The tokens the two ContextVar.set calls return hold the previous values.
ApiEnter(t, lc) ==
    /\ Len(scope[t]) < MaxDepth
    /\ ApiStep(t, "enter")
    /\ LET e == LogContext__enter__(cid, rctx, t, lc, uuidCount)
       IN  cid' = e.cid /\ rctx' = e.rctx /\ uuidCount' = uuidCount + e.gen
    /\ scope' = [scope EXCEPT ![t] = Append(@, [token_cid |-> cid[t], token_ctx |-> rctx[t]])]

\* Leaving the innermost block, normally or because its body raised, through
\* __exit__ (with) or __aexit__ (async with).
ApiExit(t, raised, isAsync) ==
    /\ scope[t] # <<>>
    /\ ApiStep(t, IF raised THEN "exit_raise" ELSE "exit")
    /\ LET x == IF isAsync THEN LogContext__aexit__(cid, rctx, t) ELSE LogContext__exit__(cid, rctx, t)
       IN  cid' = x.cid /\ rctx' = x.rctx
    /\ scope' = [scope EXCEPT ![t] = SubSeq(@, 1, Len(@) - 1)]
    /\ UNCHANGED uuidCount

\* The subsystems other than logging before anything ran.
InitExt ==
    /\ arrived = <<>>
    /\ mwConfig = <<>>
    /\ request_log = <<>>
    /\ forwarded = FALSE
    /\ auditCalled = <<>>
    /\ auditRecords = <<>>
    /\ _records = <<>>
    /\ recorded = <<>>
    /\ trackerLast = [op |-> "init", result |-> <<>>, before |-> <<>>]
    /\ _client = 0
    /\ created = 0
    /\ closes = <<>>
    /\ closing = [t \in Tasks |-> 0]
    /\ resets = 0
    /\ aiLog = <<>>
    /\ mpc = [t \in Tasks |-> "idle"]
    /\ mreq = [t \in Tasks |-> <<>>]
    /\ mloc = [t \in Tasks |-> <<>>]
    /\ in_progress = <<>>
    /\ recorded_requests = <<>>
    /\ mresult = [t \in Tasks |-> NoResult]
    /\ moutcome = [t \in Tasks |-> NoResult]
    /\ _db = 0
    /\ prisma = <<>>
    /\ dbpc = [t \in Tasks |-> "idle"]
    /\ dbclient = [t \in Tasks |-> 0]
    /\ connects = <<>>
    /\ dbReturned = <<>>

-----------------------------------------------------------------------------

Init ==
    /\ pc = [t \in Tasks |-> "idle"]
    /\ req = [t \in Tasks |-> CHOOSE rq \in RequestSamples : rq.path = <<"/api">> /\ rq.method = "GET"]
    /\ loc = [t \in Tasks |-> NoLocals]
    /\ cid = [t \in Tasks |-> None]
    /\ rctx = [t \in Tasks |-> NoCtx]
    /\ dsCid = [t \in Tasks |-> None]
    /\ dsCtx = [t \in Tasks |-> NoCtx]
    /\ dsResult = [t \in Tasks |-> NoResult]
    /\ outcome = [t \in Tasks |-> NoResult]
    /\ log = [t \in Tasks |-> <<>>]
    /\ audit = [t \in Tasks |-> <<>>]
    /\ calls = [t \in Tasks |-> 0]
    /\ uuidCount = 0
    /\ scope = [t \in Tasks |-> <<>>]
    /\ last = [t \in Tasks |-> "none"]
    /\ ops = 0
    /\ parent = [t \in Tasks |-> 0]
    /\ setBy = [t \in Tasks |-> {}]
    /\ ret = [t \in Tasks |-> <<>>]
    /\ events = [t \in Tasks |-> <<>>]
    /\ emitted = [t \in Tasks |-> <<>>]
    /\ rootLevel = "WARNING"
    /\ rootHandlers = <<>>
    /\ auditHandlers = <<>>
    /\ propagate = TRUE
    /\ delivered = <<>>
    /\ sample = <<>>
    /\ texts = <<>>
    /\ InitExt

\* The requests whose metadata is resolved: every combination of the headers
\* and of the request state that _get_correlation_id, _get_client_ip and
\* _get_user_id tell apart.  A principal may lack the attribute id.
MetadataRequests ==
    { [path |-> <<"/api">>, method |-> "GET", xcid |-> a, xrid |-> b,
       xff |-> f, xri |-> r, client |-> c, ua |-> "curl", stateUser |-> u, xuid |-> h] :
      a \in {None, "", "cid-a"}, b \in {None, "rid-x"},
      f \in {<<>>, <<"1.1.1.1", "2.2.2.2">>}, r \in {None, "3.3.3.3"},
      c \in {None, "10.0.0.9"},
      u \in {NoUser, [present |-> TRUE, hasId |-> TRUE, id |-> "alice"],
             [present |-> TRUE, hasId |-> FALSE, id |-> None]},
      h \in {None, "", "u7"} }

\* One request, of any shape, has arrived at the middleware.
InitMetadata ==
    /\ pc = [t \in Tasks |-> "idle"]
    /\ \E rq \in MetadataRequests :
          req = [t \in Tasks |-> IF t = 1 THEN rq ELSE CHOOSE s \in RequestSamples : s.path = <<"/api">> /\ s.method = "GET"]
    /\ loc = [t \in Tasks |-> NoLocals]
    /\ cid = [t \in Tasks |-> None]
    /\ rctx = [t \in Tasks |-> NoCtx]
    /\ dsCid = [t \in Tasks |-> None]
    /\ dsCtx = [t \in Tasks |-> NoCtx]
    /\ dsResult = [t \in Tasks |-> NoResult]
    /\ outcome = [t \in Tasks |-> NoResult]
    /\ log = [t \in Tasks |-> <<>>]
    /\ audit = [t \in Tasks |-> <<>>]
    /\ calls = [t \in Tasks |-> 0]
    /\ uuidCount = 0
    /\ scope = [t \in Tasks |-> <<>>]
    /\ last = [t \in Tasks |-> "none"]
    /\ ops = 0
    /\ parent = [t \in Tasks |-> 0]
    /\ setBy = [t \in Tasks |-> {}]
    /\ ret = [t \in Tasks |-> <<>>]
    /\ events = [t \in Tasks |-> <<>>]
    /\ emitted = [t \in Tasks |-> <<>>]
    /\ rootLevel = "WARNING"
    /\ rootHandlers = <<>>
    /\ auditHandlers = <<>>
    /\ propagate = TRUE
    /\ delivered = <<>>
    /\ sample = <<>>
    /\ texts = <<>>
    /\ InitExt

\* dispatch, lines 74-77, for the request that arrived.
ResolveMetadata ==
    /\ pc[1] = "idle"
    /\ pc' = [pc EXCEPT ![1] = "resolved"]
    /\ loc' = [loc EXCEPT ![1] = Locals(req[1], uuidCount)]
    /\ uuidCount' = uuidCount + (IF mw_generates(req[1]) THEN 1 ELSE 0)
    /\ UNCHANGED <<req, cid, rctx, dsCid, dsCtx, dsResult, outcome, log, audit, calls, apiVars, flowVars, emitVars, logVars, maskVars, extVars>>

\* The metadata resolution of dispatch applied to one request.
SpecMetadata == InitMetadata /\ [][ResolveMetadata]_vars

\* One operation of flow t, counted against the bound.
FlowStep(t, op) ==
    /\ pc[t] = "idle"
    /\ ops < MaxOps
    /\ ops' = ops + 1
    /\ last' = [last EXCEPT ![t] = op]
    /\ UNCHANGED <<mwVars, emitVars, logVars, maskVars, extVars>>

\* A flow calls set_correlation_id(id).
FlowSet(t, id) ==
    /\ FlowStep(t, "set")
    /\ LET s == set_correlation_id(cid, t, id, uuidCount)
       IN  /\ cid' = s.cid
           /\ uuidCount' = uuidCount + s.gen
           /\ ret' = [ret EXCEPT ![t] = <<s.ret>>]
           /\ setBy' = [setBy EXCEPT ![t] = @ \cup {s.ret}]
    /\ UNCHANGED <<rctx, scope, parent>>

\* A flow calls clear_correlation_id().
FlowClear(t) ==
    /\ FlowStep(t, "clear")
    /\ cid' = clear_correlation_id(cid, t)
    /\ ret' = [ret EXCEPT ![t] = <<None>>]
    /\ UNCHANGED <<rctx, scope, uuidCount, parent, setBy>>

\* Flow t spawns the child task u, which has not run yet.
FlowSpawn(t, u) ==
    /\ t # u
    /\ parent[u] = 0 /\ last[u] = "none"
    /\ pc[t] = "idle"
    /\ parent' = [parent EXCEPT ![u] = t]
    /\ last' = [last EXCEPT ![t] = "spawn", ![u] = "spawned"]
    /\ cid' = copy_context(cid, t, u)
    /\ rctx' = copy_context(rctx, t, u)
    /\ UNCHANGED <<mwVars, emitVars, logVars, maskVars, extVars, scope, ops, uuidCount, setBy, ret>>

SetInFlow == \E t \in Tasks, id \in CallerIds : FlowSet(t, id)

ClearInFlow == \E t \in Tasks : FlowClear(t)

SpawnChild == \E t \in Tasks, u \in Tasks : FlowSpawn(t, u)

NextFlow == SetInFlow \/ ClearInFlow \/ SpawnChild

\* Flows that set and clear the correlation id and spawn child tasks.
SpecFlow == Init /\ [][NextFlow]_vars

Dispatch == \E t \in Tasks, rq \in RequestSamples : DispatchEnter(t, rq, "none")

CallNext == \E t \in Tasks, res \in DownstreamResults, logs \in BOOLEAN : Downstream(t, res, logs)

Passthrough == \E t \in Tasks : ResumeExcluded(t)

DispatchResume == \E t \in Tasks : Resume(t, "none")

Next == Dispatch \/ CallNext \/ Passthrough \/ DispatchResume

\* The middleware with a logging backend that does not raise.
Spec == Init /\ [][Next]_vars

DispatchLogFault == \E t \in Tasks, rq \in RequestSamples : DispatchEnter(t, rq, "started")

ResumeLogFault == \E t \in Tasks, f \in {"failed", "audit", "completed"} : Resume(t, f)

NextFault == Next \/ DispatchLogFault \/ ResumeLogFault

\* The middleware with a logging backend whose calls may raise.
SpecFault == Init /\ [][NextFault]_vars

SetCorrelationId == \E t \in Tasks, id \in CallerIds : ApiSetCorrelationId(t, id)

ClearCorrelationId == \E t \in Tasks : ApiClearCorrelationId(t)

SetRequestContext == \E t \in Tasks, d \in RequestContextSamples : ApiSetRequestContext(t, d)

ClearRequestContext == \E t \in Tasks : ApiClearRequestContext(t)

EnterLogContext == \E t \in Tasks, lc \in LogContextSamples : ApiEnter(t, lc)

ExitLogContext == \E t \in Tasks, raised \in BOOLEAN, isAsync \in BOOLEAN : ApiExit(t, raised, isAsync)

NextCtx ==
    \/ SetCorrelationId \/ ClearCorrelationId \/ SetRequestContext
    \/ ClearRequestContext \/ EnterLogContext \/ ExitLogContext

\* Tasks that call the context API directly.
SpecCtx == Init /\ [][NextCtx]_vars

\* The events flows build.
EventSamples ==
    { SecurityEvent("auth.login.success", "u1", None, None, None, <<>>),
      [SecurityEvent("authz.access.denied", None, "10.0.0.9", None, "denied", <<>>)
          EXCEPT !.severity = "warning", !.outcome = "failure"] }

\* One operation of flow t that builds, serializes or formats.
EmitStep(t, op) ==
    /\ pc[t] = "idle"
    /\ ops < MaxOps
    /\ ops' = ops + 1
    /\ last' = [last EXCEPT ![t] = op]
    /\ UNCHANGED <<mwVars, flowVars, logVars, maskVars, extVars, cid, rctx, scope, uuidCount>>

\* Flow t builds a SecurityEvent and keeps it.
ConstructEvent(t, ev) ==
    /\ EmitStep(t, "construct")
    /\ events' = [events EXCEPT ![t] = Append(@, PendingEvent(ev, cid, rctx, t))]
    /\ UNCHANGED emitted

\* Flow t calls to_dict() on the event it built first.
SerializeEvent(t) ==
    /\ events[t] # <<>>
    /\ EmitStep(t, "to_dict")
    /\ events' = [events EXCEPT ![t] = Tail(@)]
    /\ emitted' = [emitted EXCEPT ![t] = Append(@,
            [kind |-> "event", made |-> Head(events[t]),
             atCid |-> get_correlation_id(cid, t), atCtx |-> get_request_context(rctx, t),
             out |-> Serialize(Head(events[t]), cid, rctx, t)])]

\* A handler formats a record logged by flow t.
FormatRecord(t, rec) ==
    /\ EmitStep(t, "format")
    /\ emitted' = [emitted EXCEPT ![t] = Append(@,
            [kind |-> "line", made |-> PendingEvent(rec, cid, rctx, t),
             atCid |-> get_correlation_id(cid, t), atCtx |-> get_request_context(rctx, t),
             out |-> JsonFormatter_format(rec, cid, rctx, t)])]
    /\ UNCHANGED events

BuildEvent == \E t \in Tasks, ev \in EventSamples : ConstructEvent(t, ev)

EventToDict == \E t \in Tasks : SerializeEvent(t)

FormatLine == \E t \in Tasks, rec \in LogRecordSamples : FormatRecord(t, rec)

NextEmit ==
    \/ SetInFlow \/ ClearInFlow \/ SetRequestContext \/ ClearRequestContext
    \/ BuildEvent \/ EventToDict \/ FormatLine

\* Flows that change their ambient context, build and serialize audit events
\* and have log records formatted.
SpecEmit == Init /\ [][NextEmit]_vars

\* The arguments configure_logging is called with.
LogFiles == {None, "logs/app.log"}

BackupCounts == {0, 10}

RootLevels == {"INFO", "WARNING"}

\* configure_logging(level, log_file=..., backup_count=...)
ConfigureLogging(level, log_file, backup_count) ==
    /\ ops < MaxOps
    /\ ops' = ops + 1
    /\ rootLevel' = level
    /\ LET a == ConfigureAudit(ConfigureRoot(log_file, backup_count), auditHandlers,
                               propagate, log_file, backup_count)
       IN  /\ rootHandlers' = a.root
           /\ auditHandlers' = a.audit
           /\ propagate' = a.propagate
    /\ UNCHANGED <<mwVars, flowVars, emitVars, maskVars, extVars, cid, rctx, uuidCount, scope, last, delivered>>

\* AuditLogger.log_event(event) once the application is configured.
AuditLogEvent(ev) ==
    /\ rootHandlers # <<>>
    /\ ops < MaxOps
    /\ ops' = ops + 1
    /\ delivered' = Append(delivered,
            [severity |-> ev.severity,
             sinks |-> AuditLoggerLog(severity_to_level(ev.severity), rootLevel,
                                      auditHandlers, rootHandlers, propagate)])
    /\ UNCHANGED <<mwVars, flowVars, emitVars, maskVars, extVars, cid, rctx, uuidCount, scope, last,
                   rootLevel, rootHandlers, auditHandlers, propagate>>

Configure ==
    \E level \in RootLevels, log_file \in LogFiles, backup_count \in BackupCounts :
        ConfigureLogging(level, log_file, backup_count)

LogAudit == \E ev \in EventSamples : AuditLogEvent(ev)

NextLog == Configure \/ LogAudit

\* The application configures logging and logs audit events.
SpecLog == Init /\ [][NextLog]_vars

\* A piece of a text: txt as logged and red as it should read once masked.
Kept(s) == [txt |-> s, red |-> s]

Secret(s, r) == [txt |-> s, red |-> r]

\* One text for each rule of the catalog, and two without a secret of their
\* kind, each split into what is sensitive and what is not.
Fragments ==
    {
      \* a URL with credentials
      <<Kept(<<"f", "t", "p", ":", "/", "/", "u", ":">>),
        Secret(<<"p", "w">>, Stars),
        Kept(<<"@", "h", "2">>)>>,
      \* an api key
      <<Kept(<<"a", "p", "i", "_", "k", "e", "y", "=">>),
        Secret(<<"k", "3", "y">>, Stars)>>,
      \* a token
      <<Kept(<<"t", "o", "k", "e", "n", ":", " ", "\"">>),
        Secret(<<"t", ".", "0", "-", "k">>, Stars),
        Kept(<<"\"">>)>>,
      \* a Bearer token
      <<Kept(<<"B", "e", "a", "r", "e", "r", " ">>),
        Secret(<<"b", "3", "4", "r">>, Stars)>>,
      \* an authorization value
      <<Kept(<<"a", "u", "t", "h", "o", "r", "i", "z", "a", "t", "i", "o", "n", ":", " ">>),
        Secret(<<"v", "4", "l", "u", "e">>, Stars)>>,
      \* a secret key
      <<Kept(<<"s", "e", "c", "r", "e", "t", "-", "k", "e", "y", " ", "=", " ">>),
        Secret(<<"s", "3", "c">>, Stars)>>,
      \* a password
      <<Kept(<<"p", "a", "s", "s", "w", "o", "r", "d", ":", " ">>),
        Secret(<<"h", "u", "n", "t", "e", "r", "2">>, Stars)>>,
      \* a card number
      <<Kept(<<"4", "1", "1", "1", "-", "1", "1", "1", "1", "-", "1", "1", "1", "1", "-">>),
        Secret(<<"9", "8", "7", "6">>, Stars)>>,
      \* a social security number
      <<Kept(<<"1", "2", "3", "-", "4", "5", "-">>),
        Secret(<<"6", "7", "8", "9">>, Stars)>>,
      \* an email address
      <<Secret(<<"u", "s", "e", "r">>, <<"*", "*", "*">>),
        Kept(<<"@", "e", "x", "a", "m", "p", "l", "e", ".", "c", "o", "m">>)>>,
      \* an AWS key id followed by sixteen digits
      <<Kept(<<"A", "K", "I", "A">>),
        Secret(<<"0", "0", "0", "0", "0", "0", "0", "0", "0", "0", "0", "0", "0", "0", "0", "0">>, <<"*", "*", "*", "*", "*", "*", "*", "*", "*", "*", "*", "*", "*", "*", "*", "*">>),
        Kept(<<"1", "2", "3", "4", "5", "6", "7", "8", "9", "0", "1", "2", "3", "4", "5", "6">>)>>,
      \* a PEM private key
      <<Secret(<<"-", "-", "-", "-", "-", "B", "E", "G", "I", "N", " ", "A", " ", "P", "R", "I", "V", "A", "T", "E", " ", "K", "E", "Y", "-", "-", "-", "-", "-", "\n", "M", "\n", "-", "-", "-", "-", "-", "E", "N", "D", " ", "A", " ", "P", "R", "I", "V", "A", "T", "E", " ", "K", "E", "Y", "-", "-", "-", "-", "-">>, <<"[", "R", "E", "D", "A", "C", "T", "E", "D", " ", "P", "R", "I", "V", "A", "T", "E", " ", "K", "E", "Y", "]">>)>>,
      \* a URL without credentials
      <<Kept(<<"h", "t", "t", "p", ":", "/", "/", "h", "/", "p">>)>> }

\* The texts masked: every fragment, and every two of them with a space
\* between.
MaskInputs == Fragments \cup { a \o <<Kept(<<" ">>)>> \o b : a, b \in Fragments }

\* The text of a sample, and the text it should read once masked.
RECURSIVE Plain(_)
Plain(s) == IF s = <<>> THEN <<>> ELSE Head(s).txt \o Plain(Tail(s))

RECURSIVE Redacted(_)
Redacted(s) == IF s = <<>> THEN <<>> ELSE Head(s).red \o Redacted(Tail(s))

\* A text reaches the filter.
Receive(s) ==
    /\ texts = <<>>
    /\ sample' = s
    /\ texts' = <<Plain(s)>>
    /\ UNCHANGED <<mwVars, apiVars, flowVars, emitVars, logVars, extVars, cid, rctx, uuidCount>>

\* _mask_sensitive_data is applied to the result of the last pass.
MaskPass ==
    /\ texts # <<>>
    /\ Len(texts) <= MaxPasses
    /\ texts' = Append(texts, _mask_sensitive_data(texts[Len(texts)]))
    /\ UNCHANGED <<mwVars, apiVars, flowVars, emitVars, logVars, extVars, cid, rctx, uuidCount, sample>>

ReceiveText == \E s \in MaskInputs : Receive(s)

NextMask == ReceiveText \/ MaskPass

\* The masking filter applied to a text, once and again.
SpecMask == Init /\ [][NextMask]_vars

-----------------------------------------------------------------------------
(* metrics/middleware.py, metrics/collector.py                             *)

\* A path is the sequence of its segments: "/users/7" is <<"users", "7">>.
\* path.startswith(excluded) looks at the text of the first segment.
SegmentStartsWith(seg, p) ==
    <<seg, p>> \in {<<"health", "health">>, <<"healthz", "health">>, <<"metrics", "metrics">>}

\* exclude_paths or ["/health", "/metrics"]
metrics_exclude_paths == {"health", "metrics"}

MetricsExcluded(rq) ==
    \E p \in metrics_exclude_paths : Len(rq.path) >= 1 /\ SegmentStartsWith(rq.path[1], p)

\* NUMERIC_ID_PATTERN.sub("/{id}", ...) on one segment: the leading digits
\* of a segment are replaced.
NormalizeSegment(seg) ==
    CASE seg \in {"7", "8"} -> "{id}"
      [] seg = "7x" -> "{id}x"
      [] OTHER -> seg

\* _normalize_path
_normalize_path(path) == [i \in DOMAIN path |-> NormalizeSegment(path[i])]

\* str(response.status_code)
str(n) == CASE n = 200 -> "200" [] n = 404 -> "404" [] n = 500 -> "500" [] OTHER -> "0"

\* Gauge.labels(...).inc() and .dec(); a child not yet made starts at 0.
GaugeValue(g, label) == IF label \in DOMAIN g THEN g[label] ELSE 0

GaugeAdd(g, label, d) ==
    [k \in DOMAIN g \cup {label} |-> IF k = label THEN GaugeValue(g, label) + d ELSE g[k]]

\* The status label of a cancelled request left out of the 500s.
status_label_CancelledApart(res) ==
    IF res.kind = "response" THEN str(res.status)
    ELSE IF res.isException THEN "500" ELSE "cancelled"

\* status_code when the finally block runs: "500" unless call_next returned.
status_label(res) == IF res.kind = "response" THEN str(res.status) ELSE "500"

\* A gauge decremented in the except block, which cancellation passes by.
in_progress_at_exit_ExceptOnly(g, l, res) ==
    IF res.kind = "exception" /\ ~res.isException THEN g
    ELSE GaugeAdd(g, <<l.method, l.endpoint>>, -1)

\* The gauge after the finally block of dispatch.
in_progress_at_exit(g, l, res) == GaugeAdd(g, <<l.method, l.endpoint>>, -1)

\* collector.record_request(method, endpoint, status, duration): one more
\* count under these labels; the duration is not modelled.
record_request(calls_, t, l, status) ==
    Append(calls_, [task |-> t, method |-> l.method, endpoint |-> l.endpoint, status |-> status])

\* The requests that reach the metrics middleware.
MetricsRequests ==
    {[method |-> "GET", path |-> p] : p \in {<<"users", "7">>, <<"users", "8">>, <<"health">>, <<"healthz">>}}
    \cup {[method |-> "POST", path |-> <<"users", "7x">>]}

\* dispatch up to its await of call_next.
MetricsEnter(t, rq) ==
    /\ mpc[t] = "idle"
    /\ mreq' = [mreq EXCEPT ![t] = rq]
    /\ IF MetricsExcluded(rq)
       THEN /\ mpc' = [mpc EXCEPT ![t] = "call_next_excluded"]
            /\ UNCHANGED <<mloc, in_progress>>
       ELSE LET l == [method |-> rq.method, endpoint |-> _normalize_path(rq.path)]
            IN  /\ mpc' = [mpc EXCEPT ![t] = "call_next"]
                /\ mloc' = [mloc EXCEPT ![t] = l]
                /\ in_progress' = GaugeAdd(in_progress, <<l.method, l.endpoint>>, 1)
    /\ UNCHANGED <<recorded_requests, mresult, moutcome, exceptMetricsVars>>

\* call_next ended with res: the finally block records the request and
\* decrements the gauge, and the response or the exception goes to the caller.
MetricsResume(t, res) ==
    /\ mpc[t] \in {"call_next", "call_next_excluded"}
    /\ mpc' = [mpc EXCEPT ![t] = "done"]
    /\ mresult' = [mresult EXCEPT ![t] = res]
    /\ moutcome' = [moutcome EXCEPT ![t] = mresult'[t]]
    /\ IF mpc[t] = "call_next_excluded"
       THEN UNCHANGED <<in_progress, recorded_requests>>
       ELSE /\ recorded_requests' = record_request(recorded_requests, t, mloc[t], status_label(res))
            /\ in_progress' = in_progress_at_exit(in_progress, mloc[t], res)
    /\ UNCHANGED <<mreq, mloc, exceptMetricsVars>>

MetricsDispatch == \E t \in Tasks, rq \in MetricsRequests : MetricsEnter(t, rq)

MetricsDownstreamEnds == \E t \in Tasks, res \in DownstreamResults : MetricsResume(t, res)

NextMetrics == MetricsDispatch \/ MetricsDownstreamEnds

\* Concurrent requests through the metrics middleware, one per task.
SpecMetrics == Init /\ [][NextMetrics]_vars

-----------------------------------------------------------------------------
(* db/__init__.py                                                          *)

MaxDbCalls == 4

\* Prisma.is_connected() on a client in state s.  What the library answers
\* while a connect() or a disconnect() of the client is under way is its own
\* matter: during is the answer it then gives.
is_connected(s, during) ==
    CASE s = "connected" -> TRUE
      [] s \in {"connecting", "disconnecting"} -> during
      [] OTHER -> FALSE

\* The calls begun so far.
DbCalls == Len(connects) + Len(dbReturned)

\* get_db_client up to its await, or to its return when the client is
\* connected: builds a Prisma client if the holder is None, calls connect()
\* unless is_connected() is true.
DbGetBegin(t, during) ==
    /\ dbpc[t] = "idle"
    /\ DbCalls < MaxDbCalls
    /\ LET db == IF _db = 0 THEN Len(prisma) + 1 ELSE _db
           clients == IF _db = 0 THEN Append(prisma, "new") ELSE prisma
       IN  /\ _db' = db
           /\ IF ~is_connected(clients[db], during)
              THEN /\ connects' = Append(connects, clients[db])
                   /\ prisma' = [clients EXCEPT ![db] = "connecting"]
                   /\ dbpc' = [dbpc EXCEPT ![t] = "connect"]
                   /\ dbclient' = [dbclient EXCEPT ![t] = db]
                   /\ UNCHANGED dbReturned
              ELSE /\ dbReturned' = Append(dbReturned, [client |-> db, state |-> clients[db]])
                   /\ prisma' = clients
                   /\ UNCHANGED <<connects, dbpc, dbclient>>
    /\ UNCHANGED exceptDbVars

\* connect() returned: get_db_client returns what the holder holds now.
DbGetEnd(t) ==
    /\ dbpc[t] = "connect"
    /\ prisma' = [prisma EXCEPT ![dbclient[t]] = "connected"]
    /\ dbReturned' = Append(dbReturned, [client |-> _db, state |-> IF _db = 0 THEN "None" ELSE prisma'[_db]])
    /\ dbpc' = [dbpc EXCEPT ![t] = "idle"]
    /\ dbclient' = [dbclient EXCEPT ![t] = 0]
    /\ UNCHANGED <<_db, connects, exceptDbVars>>

\* close_db_client up to its await: it calls disconnect() when a client is
\* held and is_connected() is true, and returns at once otherwise.
DbCloseBegin(t, during) ==
    /\ dbpc[t] = "idle"
    /\ _db # 0
    /\ is_connected(prisma[_db], during)
    /\ prisma' = [prisma EXCEPT ![_db] = "disconnecting"]
    /\ dbpc' = [dbpc EXCEPT ![t] = "disconnect"]
    /\ dbclient' = [dbclient EXCEPT ![t] = _db]
    /\ UNCHANGED <<_db, connects, dbReturned, exceptDbVars>>

\* disconnect() returned: close_db_client sets the holder to None.
DbCloseEnd(t) ==
    /\ dbpc[t] = "disconnect"
    /\ prisma' = [prisma EXCEPT ![dbclient[t]] = "disconnected"]
    /\ _db' = 0
    /\ dbpc' = [dbpc EXCEPT ![t] = "idle"]
    /\ dbclient' = [dbclient EXCEPT ![t] = 0]
    /\ UNCHANGED <<connects, dbReturned, exceptDbVars>>

GetDbClient == \E t \in Tasks, during \in BOOLEAN : DbGetBegin(t, during)

GetDbClientResumes == \E t \in Tasks : DbGetEnd(t)

CloseDbClient == \E t \in Tasks, during \in BOOLEAN : DbCloseBegin(t, during)

CloseDbClientResumes == \E t \in Tasks : DbCloseEnd(t)

NextDb == GetDbClient \/ GetDbClientResumes \/ CloseDbClient \/ CloseDbClientResumes

\* Tasks that get and close the database client concurrently.
SpecDb == Init /\ [][NextDb]_vars

MaxHeaders == 2

MaxBody == 3

\* The sequences over S of length at most n.
SeqUpTo(S, n) == UNION {[1..k -> S] : k \in 0..n}

HeaderNames == {"Authorization", "COOKIE", "X-Api-Key", "x-auth-token", "X-CSRF-Token", "Accept", "x-authorization"}

HeaderValues == {"v1", "v2"}

\* Header collections, names repeated or not.
HeaderSamples == SeqUpTo({<<k, v>> : k \in HeaderNames, v \in HeaderValues}, MaxHeaders)

\* What request.body() gives.
BodySamples == {ReadFailure} \cup {BodyBytes(b) : b \in SeqUpTo({"61", "C3", "A9", "FF"}, MaxBody)}

\* The settings of the middleware; max_body_length is 1000 unless given.
MiddlewareConfigs ==
    {[log_request_body |-> l, max_body_length |-> m] : l \in BOOLEAN, m \in 0..2}

\* The requests logged as started: every header collection on a request
\* without a body, and every body under every method and setting.
StartedInputs ==
    {<<[headers |-> h, method |-> "GET", body |-> BodyBytes(<<>>)],
       [log_request_body |-> FALSE, max_body_length |-> 2]>> : h \in HeaderSamples}
    \cup
    {<<[headers |-> <<<<"Accept", "v1">>>>, method |-> m, body |-> b], c>> :
        m \in {"GET", "POST", "PUT", "PATCH", "DELETE"}, b \in BodySamples, c \in MiddlewareConfigs}

\* A request reaches a middleware built with settings c.
StartedArrive(rq, c) ==
    /\ arrived = <<>>
    /\ arrived' = rq
    /\ mwConfig' = c
    /\ UNCHANGED <<request_log, forwarded, exceptStartVars>>

\* dispatch builds request_log, reads the body if it logs it, emits the
\* record and goes on to call_next.
LogRequestStarted ==
    /\ arrived # <<>>
    /\ request_log = <<>>
    /\ request_log' = StartedFields(arrived, mwConfig)
    /\ forwarded' = TRUE
    /\ UNCHANGED <<arrived, mwConfig, exceptStartVars>>

RequestArrives == \E in \in StartedInputs : StartedArrive(in[1], in[2])

NextStarted == RequestArrives \/ LogRequestStarted

\* The request started record of one request.
SpecStarted == Init /\ [][NextStarted]_vars

MaxAuditCalls == 2

\* An optional string argument the caller leaves out, and the value the
\* parameter then takes.
NotGiven == "<not given>"

Arg(v, default) == IF v = NotGiven THEN default ELSE v

AuthSuccessArgs ==
    {[user_id |-> "u1", ip_address |-> ip, user_agent |-> NotGiven, method |-> m, metadata |-> md] :
        ip \in {NotGiven, "10.0.0.9"}, m \in {NotGiven, "sso"},
        md \in {<<>>, [auth_method |-> "forged"]}}

AuthFailureArgs ==
    {[identifier |-> "bob", ip_address |-> "10.0.0.9", user_agent |-> NotGiven, reason |-> r, metadata |-> md] :
        r \in {NotGiven, "locked", ""}, md \in {<<>>, [attempt |-> "3"]}}

AccessDeniedArgs ==
    {[user_id |-> u, resource_type |-> "doc", resource_id |-> rid, action |-> NotGiven, reason |-> r, metadata |-> <<>>] :
        u \in {None, "u1"}, rid \in {NotGiven, "7"}, r \in {NotGiven, "blocked"}}

DataAccessArgs ==
    {[user_id |-> "u1", resource_type |-> "doc", resource_id |-> "7", action |-> a, metadata |-> <<>>] :
        a \in {NotGiven, "data.delete", "data.export"}}

SecurityAlertArgs ==
    {[alert_type |-> "scan", severity |-> s, actor_id |-> NotGiven, ip_address |-> NotGiven, details |-> d, metadata |-> <<>>] :
        s \in {NotGiven, "critical", "debug"}, d \in {NotGiven, "port scan"}}

RateLimitArgs ==
    {[ip_address |-> "10.0.0.9", endpoint |-> "/api", limit |-> 100, window |-> 60, user_id |-> u, metadata |-> md] :
        u \in {NotGiven, "u1"}, md \in {<<>>, [burst |-> "yes"]}}

\* One call of the convenience method m: each event it hands to log_event
\* becomes one record on the logger 'audit'.
ConvCall(m, a, evs) ==
    /\ auditCalled' = Append(auditCalled, [method |-> m, args |-> a, at |-> Len(auditRecords)])
    /\ auditRecords' = auditRecords \o [i \in DOMAIN evs |-> log_event(evs[i], cid, rctx, 1)]
    /\ UNCHANGED exceptConvVars

\* The six convenience methods.  Each call is taken while fewer than
\* MaxAuditCalls calls were made, and builds its event anew from its arguments.
AuthSuccess ==
    /\ Len(auditCalled) < MaxAuditCalls
    /\ \E a \in AuthSuccessArgs :
           ConvCall("auth_success", a,
                    auth_success(a.user_id, Arg(a.ip_address, None), Arg(a.user_agent, None),
                                 Arg(a.method, "password"), a.metadata))

AuthFailure ==
    /\ Len(auditCalled) < MaxAuditCalls
    /\ \E a \in AuthFailureArgs :
           ConvCall("auth_failure", a,
                    auth_failure(a.identifier, Arg(a.ip_address, None), Arg(a.user_agent, None),
                                 Arg(a.reason, "invalid_credentials"), a.metadata))

AccessDenied ==
    /\ Len(auditCalled) < MaxAuditCalls
    /\ \E a \in AccessDeniedArgs :
           ConvCall("access_denied", a,
                    access_denied(a.user_id, a.resource_type, Arg(a.resource_id, None),
                                  Arg(a.action, "access"), Arg(a.reason, "insufficient_permissions"),
                                  a.metadata))

DataAccess ==
    /\ Len(auditCalled) < MaxAuditCalls
    /\ \E a \in DataAccessArgs :
           ConvCall("data_access", a,
                    data_access(a.user_id, a.resource_type, Arg(a.resource_id, None),
                                Arg(a.action, "data.read"), a.metadata))

SecurityAlert ==
    /\ Len(auditCalled) < MaxAuditCalls
    /\ \E a \in SecurityAlertArgs :
           ConvCall("security_alert", a,
                    security_alert(a.alert_type, Arg(a.severity, "warning"), Arg(a.actor_id, None),
                                   Arg(a.ip_address, None), Arg(a.details, None), a.metadata))

RateLimitExceeded ==
    /\ Len(auditCalled) < MaxAuditCalls
    /\ \E a \in RateLimitArgs :
           ConvCall("rate_limit_exceeded", a,
                    rate_limit_exceeded(a.ip_address, a.endpoint, a.limit, a.window,
                                        Arg(a.user_id, None), a.metadata))

NextConv ==
    \/ AuthSuccess
    \/ AuthFailure
    \/ AccessDenied
    \/ DataAccess
    \/ SecurityAlert
    \/ RateLimitExceeded

\* Code that calls the convenience methods of one AuditLogger.
SpecConv == Init /\ [][NextConv]_vars

MaxRecords == 3

\* The usages handed to record(): total_tokens is what the caller gives, 0
\* when left out.
UsageSamples ==
    {TokenUsageRecord(p, c, t, m) :
        p \in {1, 2}, c \in {0, 3}, t \in {0, 5}, m \in {"gpt-4o", "gpt-4o-mini"}}

\* tracker.record(usage)
TrackerRecord(usage) ==
    /\ Len(recorded) < MaxRecords
    /\ _records' = record(_records, usage)
    /\ recorded' = Append(recorded, usage)
    /\ trackerLast' = [op |-> "record", result |-> <<>>, before |-> _records]
    /\ UNCHANGED exceptTrackVars

\* tracker.get_total()
TrackerGetTotal ==
    /\ trackerLast' = [op |-> "get_total", result |-> get_total(_records), before |-> _records]
    /\ UNCHANGED <<_records, recorded, exceptTrackVars>>

\* tracker.get_by_model()
TrackerGetByModel ==
    /\ trackerLast' = [op |-> "get_by_model", result |-> get_by_model(_records), before |-> _records]
    /\ UNCHANGED <<_records, recorded, exceptTrackVars>>

\* tracker.clear()
TrackerClear ==
    /\ _records' = clear(_records)
    /\ recorded' = <<>>
    /\ trackerLast' = [op |-> "clear", result |-> <<>>, before |-> _records]
    /\ UNCHANGED exceptTrackVars

RecordUsage == \E usage \in UsageSamples : TrackerRecord(usage)

NextTracker == RecordUsage \/ TrackerGetTotal \/ TrackerGetByModel \/ TrackerClear

\* Code that uses one TokenTracker.
SpecTracker == Init /\ [][NextTracker]_vars

MaxAiCalls == 4

Providers == {"openai", "anthropic"}

\* One more call on the holder ended.
AiLogged(op, provider, result, after) ==
    aiLog' = Append(aiLog, [op |-> op, provider |-> provider, result |-> result,
                            before |-> _client, after |-> after, resets |-> resets])

\* A task calls get_ai_client(provider); the function has no await.
AiGet(t, provider, has_openai) ==
    /\ closing[t] = 0
    /\ Len(aiLog) < MaxAiCalls
    /\ LET r == get_ai_client(_client, created, provider, has_openai)
       IN  /\ _client' = r.client
           /\ created' = r.created
           /\ closes' = IF r.created > created THEN Append(closes, 0) ELSE closes
           /\ AiLogged("get", provider, r.result, r.client)
    /\ UNCHANGED <<closing, resets, exceptAiVars>>

\* A task calls close_ai_client() while no other call of it is under way:
\* with no instance held it returns, else it calls close() on the instance
\* and is suspended in the await.
AiCloseBegin(t) ==
    /\ \A u \in Tasks : closing[u] = 0
    /\ Len(aiLog) < MaxAiCalls
    /\ IF _client = 0
       THEN /\ AiLogged("close", "", Returned(0), _client)
            /\ UNCHANGED <<closes, closing>>
       ELSE /\ closes' = [closes EXCEPT ![_client] = @ + 1]
            /\ closing' = [closing EXCEPT ![t] = _client]
            /\ UNCHANGED aiLog
    /\ UNCHANGED <<_client, created, resets, exceptAiVars>>

\* close() returned: close_ai_client sets the holder to None.
AiCloseEnd(t) ==
    /\ closing[t] # 0
    /\ _client' = 0
    /\ resets' = resets + 1
    /\ closing' = [closing EXCEPT ![t] = 0]
    /\ AiLogged("close", "", Returned(0), 0)
    /\ UNCHANGED <<created, closes, exceptAiVars>>

GetAiClient == \E t \in Tasks, provider \in Providers, has_openai \in BOOLEAN : AiGet(t, provider, has_openai)

CloseAiClient == \E t \in Tasks : AiCloseBegin(t)

CloseAiClientResumes == \E t \in Tasks : AiCloseEnd(t)

NextAi == GetAiClient \/ CloseAiClient \/ CloseAiClientResumes

\* Tasks that get the AI client, and an application that closes it.
SpecAi == Init /\ [][NextAi]_vars

-----------------------------------------------------------------------------
(* Properties                                                              *)

\* Number of records of kind k emitted on behalf of task t.
Count(t, k) == Cardinality({i \in DOMAIN log[t] : log[t][i].kind = k})

\* Task t handles a request whose path has a configured prefix.
ExcludedRequest(t) == \E p \in exclude_paths : StartsWith(req[t].path, p)

\* Task t handles a request that dispatch logs.
Logged(t) == pc[t] # "idle" /\ ~ExcludedRequest(t)

\* The request-context snapshot dispatch builds for task t's request.
Snapshot(t) == <<LogContextDict(DispatchLogContext(req[t], loc[t]))>>

\* Every correlation id read in task t's flow so far: by the log statements
\* run for it, by to_dict of its audit events, in its downstream child, and
\* the one a get_correlation_id() would return now.
CidReads(t) ==
    {cid[t], dsCid[t]}
    \cup {log[t][i].ambCid : i \in DOMAIN log[t]}
    \cup {audit[t][i].extra["correlation_id"] :
            i \in {j \in DOMAIN audit[t] : "correlation_id" \in DOMAIN audit[t][j].extra}}

\* Every request-context snapshot read in task t's flow so far.
CtxReads(t) ==
    {rctx[t], dsCtx[t]}
    \cup {log[t][i].ambCtx : i \in DOMAIN log[t]}
    \cup {<<audit[t][i].extra["request_context"]>> :
            i \in {j \in DOMAIN audit[t] : "request_context" \in DOMAIN audit[t][j].extra}}

\* C1: with request flows interleaved in any order, every correlation id read
\* inside a flow is that flow's own resolved id or absent, never the id of
\* another flow that resolved a different one; likewise every request-context
\* snapshot read inside a flow is its own or absent.
C1_Isolation ==
    \A a \in Tasks :
        /\ CidReads(a) \subseteq {loc[a].correlation_id, None}
        /\ CtxReads(a) \subseteq {Snapshot(a), NoCtx}
        /\ \A b \in Tasks \ {a} :
              (Logged(b) /\ loc[b].correlation_id # loc[a].correlation_id)
                  => loc[b].correlation_id \notin CidReads(a)

\* Two logged requests with different ids have both finished, one with an
\* error record and a handler record, the other with a completion record.
C1_Witness ==
    \E a, b \in Tasks :
        /\ a # b /\ pc[a] = "done" /\ pc[b] = "done" /\ Logged(a) /\ Logged(b)
        /\ loc[a].correlation_id # loc[b].correlation_id
        /\ Count(a, "failed") = 1 /\ Count(b, "completed") = 1
        /\ Count(a, "handler") = 1

\* C2: in a task that has just left a LogContext block, through __exit__ or
\* __aexit__, normally or because the body raised, the correlation id and the
\* request context are both absent.
C2_ExitClears ==
    \A t \in Tasks :
        last[t] \in {"exit", "exit_raise"}
            => get_correlation_id(cid, t) = None /\ get_request_context(rctx, t) = NoCtx

\* A task has left an inner block because its body raised, and is still inside
\* an outer block.
C2_Witness == \E t \in Tasks : last[t] = "exit_raise" /\ Len(scope[t]) = 1

\* C3: when the downstream handler of a logged request raised an Exception
\* and dispatch has ended, there is one 'request failed' record and no
\* 'request completed' record, one audit record, with action api.error,
\* carrying the resolved user id, client ip, user agent and the exception
\* type, and dispatch raised the same exception (type and message); no response.
C3_FailureAuditedAndReraised ==
    \A t \in Tasks :
        (pc[t] = "done" /\ Logged(t) /\ dsResult[t].kind = "exception" /\ dsResult[t].isException)
            => /\ Count(t, "failed") = 1
               /\ Count(t, "completed") = 0
               /\ Len(audit[t]) = 1
               /\ audit[t][1].event.action = "api.error"
               /\ audit[t][1].extra["action"] = "api.error"
               /\ audit[t][1].event.actor_id = mw_get_user_id(req[t])
               /\ audit[t][1].extra["actor"].id = mw_get_user_id(req[t])
               /\ audit[t][1].event.ip_address = mw_get_client_ip(req[t])
               /\ audit[t][1].event.user_agent = mw_user_agent(req[t])
               /\ audit[t][1].extra["metadata"].error_type = dsResult[t].etype
               /\ outcome[t].kind = "exception"
               /\ outcome[t].etype = dsResult[t].etype
               /\ outcome[t].emsg = dsResult[t].emsg

\* dispatch has ended for a logged request whose handler raised ValueError.
C3_Witness ==
    \E t \in Tasks :
        /\ pc[t] = "done" /\ Logged(t)
        /\ dsResult[t].etype = "ValueError"
        /\ Len(audit[t]) = 1

\* C4: among the records of one logged request, 'request started' comes
\* before every record its downstream handler writes and before its 'request
\* completed' or 'request failed' record; no request has a terminal record
\* without a 'request started' record before it; the handler of a logged
\* request is not invoked before 'request started' is emitted.
C4_StartedFirst ==
    \A t \in Tasks :
        /\ \A i \in DOMAIN log[t] :
              (log[t][i].kind \in {"completed", "failed"} \/ (Logged(t) /\ log[t][i].kind = "handler"))
                  => \E j \in 1..(i - 1) : log[t][j].kind = "started"
        /\ (Logged(t) /\ calls[t] > 0) => Count(t, "started") = 1

\* Two logged requests are past their terminal record, one completed and one
\* failed, and each handler logged.
C4_Witness ==
    \E a, b \in Tasks :
        /\ a # b /\ Count(a, "completed") = 1 /\ Count(b, "failed") = 1
        /\ Count(a, "handler") = 1 /\ Count(b, "handler") = 1

\* C5 as stated: a logged request whose downstream call ended by returning,
\* raising or being cancelled has exactly one terminal record once dispatch
\* has ended.
C5_OneTerminalAlways ==
    \A t \in Tasks :
        (pc[t] = "done" /\ Logged(t) /\ Count(t, "started") = 1)
            => Count(t, "completed") + Count(t, "failed") = 1

\* C5 amended: a logged request never has both terminal records nor two of
\* one; once dispatch has ended it has exactly one 'request completed' record
\* (and a response) if the downstream call returned, exactly one 'request
\* failed' record (and the exception rethrown) if it raised an Exception, and
\* no terminal record if it was cancelled; before dispatch ends it has none.
C5_OneTerminal ==
    \A t \in Tasks :
        Logged(t) =>
            /\ Count(t, "completed") + Count(t, "failed") <= 1
            /\ pc[t] # "done" => Count(t, "completed") + Count(t, "failed") = 0
            /\ (pc[t] = "done" /\ dsResult[t].kind = "response")
                  => Count(t, "completed") = 1 /\ outcome[t].kind = "response"
            /\ (pc[t] = "done" /\ dsResult[t].kind = "exception" /\ dsResult[t].isException)
                  => Count(t, "failed") = 1 /\ outcome[t] = dsResult[t]
            /\ (pc[t] = "done" /\ dsResult[t].kind = "exception" /\ ~dsResult[t].isException)
                  => Count(t, "completed") + Count(t, "failed") = 0 /\ outcome[t] = dsResult[t]

\* All three endings of a logged request have been seen to their end.
C5_Witness ==
    \E t \in Tasks :
        /\ pc[t] = "done" /\ Logged(t) /\ dsResult[t] = CancelledError
        /\ \E u \in Tasks : pc[u] = "done" /\ Logged(u) /\ dsResult[u].kind = "response"

\* C6: every record written for a logged request - started, completed,
\* failed, by the handler, and the api.error audit record - was written while
\* get_correlation_id() returned the request's resolved id and
\* get_request_context() returned the request's snapshot.
C6_AmbientCoversLifetime ==
    \A t \in Tasks :
        Logged(t) =>
            /\ \A i \in DOMAIN log[t] :
                  /\ log[t][i].ambCid = loc[t].correlation_id
                  /\ log[t][i].ambCtx = Snapshot(t)
            /\ \A i \in DOMAIN audit[t] :
                  /\ "correlation_id" \in DOMAIN audit[t][i].extra
                  /\ "request_context" \in DOMAIN audit[t][i].extra

\* C7: once dispatch has ended because the downstream call of a logged request
\* was cancelled, the correlation id and the request context of that task are
\* absent, and no other task reads the cancelled request's id unless it is
\* its own.
C7_CancelClears ==
    \A t \in Tasks :
        (pc[t] = "done" /\ Logged(t) /\ dsResult[t] = CancelledError)
            => /\ get_correlation_id(cid, t) = None
               /\ get_request_context(rctx, t) = NoCtx
               /\ outcome[t] = CancelledError
               /\ \A u \in Tasks \ {t} :
                     loc[t].correlation_id \in CidReads(u)
                         => loc[u].correlation_id = loc[t].correlation_id

\* A logged request was cancelled in call_next and dispatch has ended, and a
\* request that arrived later is being handled.
C7_Witness ==
    \E t, u \in Tasks :
        /\ t < u /\ pc[t] = "done" /\ Logged(t) /\ dsResult[t] = CancelledError
        /\ dsCid[t] = loc[t].correlation_id
        /\ pc[u] = "call_next"

\* What the caller of dispatch received is what the downstream call produced.
SameOutcome(o, r) ==
    o.kind = r.kind /\ o.status = r.status /\ o.etype = r.etype /\ o.emsg = r.emsg

\* C8: whichever logging call of the middleware raises, the downstream handler
\* of a logged request is still invoked and the caller receives its response
\* or its exception.
C8_FailOpen ==
    \A t \in Tasks :
        (pc[t] = "done" /\ Logged(t))
            => calls[t] = 1 /\ SameOutcome(outcome[t], dsResult[t])

\* C9: for a request whose path starts with an excluded prefix, dispatch
\* invokes the downstream handler once and hands on what it produced,
\* unchanged; no started, completed or failed record and no audit record is
\* written, the X-Correlation-ID response header is as the handler left it,
\* and the task's correlation id and request context stay as they were.
C9_ExcludedBypass ==
    \A t \in Tasks :
        (pc[t] # "idle" /\ ExcludedRequest(t))
            => /\ calls[t] = 1
               /\ Count(t, "started") + Count(t, "completed") + Count(t, "failed") = 0
               /\ audit[t] = <<>>
               /\ cid[t] = None /\ rctx[t] = NoCtx
               /\ pc[t] = "done" => outcome[t] = dsResult[t]
               /\ pc[t] # "done" => outcome[t] = NoResult

\* A request for /healthz, excluded through the prefix /health only, was
\* answered without the header while another request was being logged.
C9_Witness ==
    \E t, u \in Tasks :
        /\ pc[t] = "done" /\ req[t].path = <<"/he", "alth", "z">>
        /\ outcome[t].kind = "response" /\ outcome[t].xcid = None
        /\ Count(u, "started") = 1

\* C10: the response dispatch returns for a logged request carries the header
\* X-Correlation-ID with the id resolved for that request, the id its 'request
\* started' and 'request completed' records carry, whatever header the handler
\* set and whatever other requests are in flight.
C10_OutboundHeader ==
    \A t \in Tasks :
        (pc[t] = "done" /\ Logged(t) /\ outcome[t].kind = "response")
            => /\ Truthy(outcome[t].xcid)
               /\ outcome[t].xcid = loc[t].correlation_id
               /\ \A i \in DOMAIN log[t] :
                     log[t][i].kind \in {"started", "completed"}
                         => log[t][i].data.correlation_id = outcome[t].xcid
               /\ Count(t, "started") = 1 /\ Count(t, "completed") = 1

\* Two requests were answered with different ids, one generated, one in place
\* of the header the handler had set itself.
C10_Witness ==
    \E a, b \in Tasks :
        /\ pc[a] = "done" /\ pc[b] = "done"
        /\ outcome[a].kind = "response" /\ outcome[b].kind = "response"
        /\ dsResult[a].xcid = "ds-own" /\ outcome[a].xcid = "rid-b"
        /\ ~Truthy(req[b].xcid) /\ ~Truthy(req[b].xrid) /\ Logged(b)

\* C11: a logged request that got a response has exactly one completion
\* record; its level is error for a status of 500 or more, warning for a
\* status from 400 to 499, and info otherwise, and the record carries the
\* request's correlation id.
C11_CompletionLevel ==
    \A t \in Tasks :
        (pc[t] = "done" /\ Logged(t) /\ dsResult[t].kind = "response")
            => /\ Count(t, "completed") = 1
               /\ \A i \in DOMAIN log[t] :
                     log[t][i].kind = "completed"
                         => /\ (dsResult[t].status >= 500 => log[t][i].level = "error")
                            /\ (dsResult[t].status >= 400 /\ dsResult[t].status < 500
                                    => log[t][i].level = "warning")
                            /\ (dsResult[t].status < 400 => log[t][i].level = "info")
                            /\ log[t][i].data.status_code = dsResult[t].status
                            /\ log[t][i].data.correlation_id = loc[t].correlation_id
                            /\ Truthy(log[t][i].data.correlation_id)

\* One request was answered 500 and another 404, and both are logged.
C11_Witness ==
    \E a, b \in Tasks :
        /\ pc[a] = "done" /\ Logged(a) /\ dsResult[a].kind = "response" /\ dsResult[a].status = 500
        /\ pc[b] = "done" /\ Logged(b) /\ dsResult[b].kind = "response" /\ dsResult[b].status = 404

\* C19: the id resolved for a logged request is its X-Correlation-ID header
\* when that header is sent with a non-empty value; otherwise its X-Request-ID
\* header when that is sent with a non-empty value; otherwise a generated id
\* that no other request has; it is never absent or empty.
C19_ResolutionOrder ==
    \A t \in Tasks :
        Logged(t) =>
            /\ Truthy(loc[t].correlation_id)
            /\ Truthy(req[t].xcid) => loc[t].correlation_id = req[t].xcid
            /\ (~Truthy(req[t].xcid) /\ Truthy(req[t].xrid)) => loc[t].correlation_id = req[t].xrid
            /\ (~Truthy(req[t].xcid) /\ ~Truthy(req[t].xrid))
                  => /\ loc[t].correlation_id \notin {req[t].xcid, req[t].xrid}
                     /\ \E n \in 1..MaxTasks : loc[t].correlation_id = Uuid4(n)
                     /\ \A u \in Tasks \ {t} : Logged(u) => loc[u].correlation_id # loc[t].correlation_id

\* Two requests that sent neither header with a value are in flight together.
C19_Witness ==
    \E a, b \in Tasks :
        /\ a # b /\ pc[a] = "call_next" /\ pc[b] = "call_next"
        /\ ~Truthy(req[a].xcid) /\ ~Truthy(req[a].xrid)
        /\ ~Truthy(req[b].xcid) /\ ~Truthy(req[b].xrid)


\* C20 (as stated): the resolved user id is the principal's id when the request
\* state has one, and in every case in which the request state supplies no
\* user id it is what the X-User-ID header holds (absent without the header).
C20_HeaderWheneverNoStateId ==
    pc[1] = "resolved"
        => IF req[1].stateUser.present /\ req[1].stateUser.hasId
           THEN loc[1].user_id = req[1].stateUser.id
           ELSE loc[1].user_id = req[1].xuid

\* C20 (amended): with a principal on the request state the resolved user id
\* is that principal's id, absent when the principal has none, whatever the
\* X-User-ID header holds; without a principal it is the header's value,
\* absent without the header.
C20_UserIdResolution ==
    pc[1] = "resolved"
        => IF req[1].stateUser.present
           THEN loc[1].user_id = (IF req[1].stateUser.hasId THEN req[1].stateUser.id ELSE None)
           ELSE loc[1].user_id = req[1].xuid

\* A request with a principal that has no id and with an X-User-ID header has
\* been resolved.
C20_Witness ==
    /\ pc[1] = "resolved"
    /\ req[1].stateUser.present /\ ~req[1].stateUser.hasId
    /\ req[1].xuid = "u7"


\* The flow t and the flows it descends from.
RECURSIVE Lineage(_)
Lineage(t) == IF parent[t] = 0 THEN {t} ELSE {t} \cup Lineage(parent[t])

\* C12: after a flow sets a correlation id, get_correlation_id() returns it in
\* that flow until the flow itself clears or replaces it; a child task starts
\* with the id its parent has when spawning it and keeps it until it sets or
\* clears its own; no flow reads an id that neither it nor a flow it descends
\* from has set.
C12_Inheritance ==
    /\ [](\A t \in Tasks :
            /\ ret[t] # <<>> => get_correlation_id(cid, t) = ret[t][1]
            /\ Truthy(get_correlation_id(cid, t))
                  => \E a \in Lineage(t) : get_correlation_id(cid, t) \in setBy[a])
    /\ [][\A u \in Tasks :
            /\ (parent[u] = 0 /\ parent'[u] # 0)
                  => /\ get_correlation_id(cid', u) = get_correlation_id(cid, parent'[u])
                     /\ get_correlation_id(cid', parent'[u]) = get_correlation_id(cid, parent'[u])
            /\ (parent'[u] = parent[u] /\ ret'[u] = ret[u])
                  => get_correlation_id(cid', u) = get_correlation_id(cid, u)]_vars

\* A child task reads the generated id its parent set before spawning it, and
\* has set none itself.
C12_Witness ==
    \E u \in Tasks :
        /\ parent[u] # 0 /\ ret[u] = <<>>
        /\ cid[u] = Uuid4(1)
        /\ cid[u] \in setBy[parent[u]]


\* C17: the dictionary to_dict() returns has the key correlation_id exactly
\* when a correlation id is set in the calling flow while to_dict() runs, with
\* that value, and the key request_context exactly when a request context
\* that is not empty is set then, with that value, whatever was set when the
\* event was built; it always has the event's action and severity.
C17_SerializationTimeContext ==
    \A t \in Tasks : \A i \in DOMAIN emitted[t] :
        LET e == emitted[t][i]
        IN  e.kind = "event"
                => /\ ("correlation_id" \in DOMAIN e.out) <=> (e.atCid # None)
                   /\ e.atCid # None => e.out["correlation_id"] = e.atCid
                   /\ ("request_context" \in DOMAIN e.out)
                         <=> (e.atCtx # NoCtx /\ e.atCtx # << <<>> >>)
                   /\ "request_context" \in DOMAIN e.out
                         => <<e.out["request_context"]>> = e.atCtx
                   /\ {"action", "severity"} \subseteq DOMAIN e.out
                   /\ e.out["action"] = e.made.event.action
                   /\ e.out["severity"] = e.made.event.severity

\* An event built while one correlation id was set was serialized after the
\* flow replaced it and set a request context; another was built with an id
\* set and serialized after the id was cleared.
C17_Witness ==
    \E t \in Tasks : \E i \in DOMAIN emitted[t] :
        /\ emitted[t][i].kind = "event"
        /\ emitted[t][i].made.madeCid # None
        /\ emitted[t][i].atCid # emitted[t][i].made.madeCid

\* C18: the entry JsonFormatter.format builds has the field correlation_id
\* exactly when a correlation id is set in the emitting flow at that moment,
\* with that value, and the field request exactly when a request context that
\* is not empty is set; with flows interleaved, the correlation id in a flow's
\* entry is one that this flow set.
C18_LineContext ==
    \A t \in Tasks : \A i \in DOMAIN emitted[t] :
        LET e == emitted[t][i]
        IN  e.kind = "line"
                => /\ ("correlation_id" \in DOMAIN e.out) <=> (e.atCid # None)
                   /\ e.atCid # None => e.out["correlation_id"] = e.atCid
                   /\ "correlation_id" \in DOMAIN e.out => e.out["correlation_id"] \in setBy[t]
                   /\ ("request" \in DOMAIN e.out)
                         <=> (e.atCtx # NoCtx /\ e.atCtx # << <<>> >>)
                   /\ "request" \in DOMAIN e.out => <<e.out["request"]>> = e.atCtx

\* Two flows hold different correlation ids, and each has an entry: one
\* carrying its own id, the other formatted with no id set.
C18_Witness ==
    \E a, b \in Tasks :
        /\ a # b /\ Truthy(cid[a]) /\ Truthy(cid[b]) /\ cid[a] # cid[b]
        /\ \E i \in DOMAIN emitted[a] :
              emitted[a][i].kind = "line" /\ emitted[a][i].atCid = cid[a]
        /\ \E i \in DOMAIN emitted[b] :
              emitted[b][i].kind = "line" /\ "correlation_id" \notin DOMAIN emitted[b][i].out


\* C16: once configure_logging has run, with or without a log file, every
\* event logged through the logger 'audit' is written to the audit sink and to
\* neither the console nor the general log file, and every audit handler
\* keeps more rotated files than the general file handler.
C16_AuditSinkOnly ==
    /\ \A i \in DOMAIN delivered :
          /\ \E j \in DOMAIN delivered[i].sinks : delivered[i].sinks[j] = "audit"
          /\ \A j \in DOMAIN delivered[i].sinks : delivered[i].sinks[j] = "audit"
    /\ \A i \in DOMAIN auditHandlers : \A j \in DOMAIN rootHandlers :
          rootHandlers[j].sink = "file"
              => auditHandlers[i].backupCount > rootHandlers[j].backupCount


\* C13: masking a text that was already masked leaves it as it is:
\* mask(mask(text)) = mask(text) for every text.
C13_Idempotent == Len(texts) >= 3 => texts[3] = texts[2]

\* C14: once masked, a text reads as before except that each sensitive piece
\* is replaced by its redaction token: no sensitive piece is left, and every
\* character outside the sensitive pieces is kept, in place.
C14_SecretAndNothingElse == Len(texts) >= 2 => texts[2] = Redacted(sample)

C30_ExitDoesNotRestore ==
    [][\A t \in Tasks :
          Len(scope'[t]) < Len(scope[t])
              => /\ get_correlation_id(cid', t) = None
                 /\ get_request_context(rctx', t) = NoCtx]_vars

\* A task that is still inside an outer block, entered with an id, has left a
\* nested block whose tokens held the outer id and snapshot; it reads no id.
C30_Witness ==
    \E t \in Tasks :
        /\ last[t] = "exit" /\ Len(scope[t]) >= 1
        /\ cid[t] = None /\ rctx[t] = NoCtx


\* C28: after any number of configure_logging calls with a log file, the root
\* logger holds the console handler and the file handler of the last call,
\* the logger 'audit' holds one audit handler, and no audit event is written
\* to the audit file more than once.
C28_ConfigureIdempotent ==
    /\ (\E j \in DOMAIN rootHandlers : rootHandlers[j].sink = "file")
          => /\ Len(rootHandlers) = 2
             /\ rootHandlers[1].sink = "console"
             /\ Len(auditHandlers) = 1
    /\ \A i \in DOMAIN delivered :
          Cardinality({j \in DOMAIN delivered[i].sinks : delivered[i].sinks[j] = "audit"}) <= 1


\* The header names of the samples that equal a deny-listed name once case
\* is ignored.
DenyListed(k) == k \in {"Authorization", "COOKIE", "X-Api-Key", "x-auth-token", "X-CSRF-Token"}

\* Two header collections that differ at most in the values of deny-listed
\* headers.
SameButDenyListed(g, h) ==
    /\ Len(g) = Len(h)
    /\ \A i \in DOMAIN g :
          /\ g[i][1] = h[i][1]
          /\ ~DenyListed(g[i][1]) => g[i][2] = h[i][2]

\* C21: the header snapshot of the request started record has exactly the
\* header names of the request; under every name that is deny-listed once
\* case is ignored it holds '[REDACTED]', and under every other name a value
\* the request carries for that name; every request that differs from the
\* logged one only in the values of deny-listed headers has the same snapshot.
C21_SensitiveHeadersRedacted ==
    request_log # <<>> =>
        LET h == arrived.headers
            s == request_log.headers
        IN  /\ DOMAIN s = {h[i][1] : i \in DOMAIN h}
            /\ \A k \in DOMAIN s :
                  IF DenyListed(k)
                  THEN s[k] = "[REDACTED]"
                  ELSE s[k] \in {h[i][2] : i \in {j \in DOMAIN h : h[j][1] = k}}
            /\ \A g \in HeaderSamples :
                  SameButDenyListed(g, h) => _safe_headers(g) = s

C21_Witness ==
    /\ request_log # <<>>
    /\ arrived.headers = <<<<"Authorization", "v1">>, <<"Accept", "v2">>>>
    /\ request_log.headers["Authorization"] = "[REDACTED]"
    /\ request_log.headers["Accept"] = "v2"

\* C22: the request started record has a body field only if body logging is
\* enabled and the method is POST, PUT or PATCH; the field is None when the
\* body is empty or reading it failed, the decoded text when that has at most
\* max_body_length characters, and otherwise its first max_body_length
\* characters followed by '...[truncated]'; the request goes on in every case.
C22_BodyGatedAndCapped ==
    request_log # <<>> =>
        /\ forwarded
        /\ request_log.body # <<>> =>
              /\ mwConfig.log_request_body
              /\ arrived.method \in {"POST", "PUT", "PATCH"}
              /\ LET v == request_log.body[1]
                     text == decode(arrived.body.bytes)
                     n == mwConfig.max_body_length
                 IN  IF arrived.body.raised \/ arrived.body.bytes = <<>>
                     THEN v.none
                     ELSE /\ ~v.none
                          /\ IF Len(text) <= n
                             THEN v.text = text
                             ELSE v.text = SubSeq(text, 1, n) \o TruncatedSuffix

C22_Witness ==
    /\ request_log # <<>>
    /\ request_log.body # <<>>
    /\ arrived.body.bytes = <<"C3", "A9", "61">>
    /\ mwConfig.max_body_length = 1
    /\ request_log.body[1].text = <<"U+00E9">> \o TruncatedSuffix


\* What the claim fixes for the record of one call: action, severity, outcome
\* and, per method, the reason or the metadata.
ConvMapping(c, e) ==
    LET a == c.args
    IN  CASE c.method = "auth_success" ->
               e.action = "auth.login.success" /\ e.severity = "info" /\ e.outcome = "success"
          [] c.method = "auth_failure" ->
               /\ e.action = "auth.login.failure" /\ e.severity = "warning" /\ e.outcome = "failure"
               /\ LET r == Arg(a.reason, "invalid_credentials")
                  IN  IF Truthy(r) THEN "reason" \in DOMAIN e /\ e.reason = r
                      ELSE "reason" \notin DOMAIN e
          [] c.method = "access_denied" ->
               e.action = "authz.access.denied" /\ e.severity = "warning" /\ e.outcome = "failure"
          [] c.method = "data_access" ->
               e.action = Arg(a.action, "data.read") /\ e.severity = "info"
          [] c.method = "security_alert" ->
               e.action = "security.alert" /\ e.severity = Arg(a.severity, "warning")
          [] c.method = "rate_limit_exceeded" ->
               /\ e.action = "security.rate_limit" /\ e.severity = "warning"
               /\ "metadata" \in DOMAIN e
               /\ {"endpoint", "limit", "window"} \subseteq DOMAIN e.metadata
               /\ e.metadata.endpoint = a.endpoint
               /\ e.metadata.limit = a.limit
               /\ e.metadata.window = a.window

\* C23: every call of a convenience method of AuditLogger hands exactly one
\* record to the logger 'audit', and that record has the action, severity and
\* outcome fixed for the method: auth.login.success/info/success,
\* auth.login.failure/warning/failure with the reason when it is not empty,
\* authz.access.denied/warning/failure, the caller's action (data.read by
\* default) with info, security.alert with the caller's severity (warning by
\* default), security.rate_limit/warning with endpoint, limit and window in
\* the metadata.
C23_ConvenienceMappings ==
    /\ Len(auditRecords) = Len(auditCalled)
    /\ \A i \in DOMAIN auditCalled :
          /\ auditCalled[i].at = i - 1
          /\ ConvMapping(auditCalled[i], auditRecords[i].extra)

C23_Witness ==
    /\ Len(auditCalled) = 2
    /\ auditCalled[1].method = "auth_failure" /\ auditCalled[1].args.reason = "locked"
    /\ auditRecords[1].extra.reason = "locked"
    /\ auditCalled[2].method = "rate_limit_exceeded"
    /\ auditRecords[2].extra.metadata.limit = 100


\* The sum of f over a finite set of keys.
RECURSIVE SumOver(_, _, _)
SumOver(keys, f, field) ==
    IF keys = {} THEN 0
    ELSE LET k == CHOOSE k \in keys : TRUE
         IN  f[k][field] + SumOver(keys \ {k}, f, field)

\* C24: record_count is the number of record() calls since the last clear();
\* get_total() returns the sums of prompt_tokens and of completion_tokens
\* over the usages recorded since then, and their sum as total_tokens; the
\* entries of get_by_model() add up to the same prompt and completion sums;
\* neither getter changes the stored records; after clear() record_count is 0.
C24_TrackerAggregates ==
    /\ record_count(_records) = Len(recorded)
    /\ trackerLast.op = "get_total" =>
          /\ trackerLast.result.prompt_tokens = sum(recorded, "prompt_tokens")
          /\ trackerLast.result.completion_tokens = sum(recorded, "completion_tokens")
          /\ trackerLast.result.total_tokens
                = trackerLast.result.prompt_tokens + trackerLast.result.completion_tokens
          /\ _records = trackerLast.before
    /\ trackerLast.op = "get_by_model" =>
          /\ SumOver(DOMAIN trackerLast.result, trackerLast.result, "prompt_tokens")
                = get_total(_records).prompt_tokens
          /\ SumOver(DOMAIN trackerLast.result, trackerLast.result, "completion_tokens")
                = get_total(_records).completion_tokens
          /\ _records = trackerLast.before
    /\ trackerLast.op = "clear" => record_count(_records) = 0

C24_Witness ==
    /\ trackerLast.op = "get_total"
    /\ Len(recorded) = 2
    /\ recorded[1].total_tokens = 0
    /\ recorded[1].model # recorded[2].model
    /\ trackerLast.result.total_tokens = 8


\* The calls of get_ai_client that returned a client.
GetsReturned == {i \in DOMAIN aiLog : aiLog[i].op = "get" /\ aiLog[i].result.raised = ""}

\* C25: two get_ai_client('openai') calls with no reset of the holder between
\* them return the same instance, and with a reset between them different
\* instances; an instance is closed once by the close_ai_client that drops it
\* and never while it stays held; close_ai_client with no instance held
\* returns and leaves the holder empty; get_ai_client with another provider
\* raises ValueError and leaves the holder as it was.
C25_SingletonLifecycle ==
    /\ \A i, j \in GetsReturned :
          /\ aiLog[i].resets = aiLog[j].resets => aiLog[i].result.instance = aiLog[j].result.instance
          /\ aiLog[i].resets # aiLog[j].resets => aiLog[i].result.instance # aiLog[j].result.instance
    /\ \A k \in DOMAIN closes :
          closes[k] = (IF k = _client /\ \A t \in Tasks : closing[t] # k THEN 0 ELSE 1)
    /\ \A i \in DOMAIN aiLog :
          /\ aiLog[i].op = "close" =>
                /\ aiLog[i].result.raised = ""
                /\ aiLog[i].after = 0
          /\ aiLog[i].op = "get" /\ aiLog[i].provider # "openai" =>
                /\ aiLog[i].result = RaisedError("ValueError")
                /\ aiLog[i].after = aiLog[i].before

C25_Witness ==
    /\ Len(aiLog) = 4
    /\ aiLog[1].op = "get" /\ aiLog[1].result.instance = 1
    /\ aiLog[2].op = "get" /\ aiLog[2].provider = "anthropic" /\ aiLog[2].before = 1
    /\ aiLog[3].op = "close" /\ aiLog[3].before = 1
    /\ aiLog[4].op = "get" /\ aiLog[4].result.instance = 2
    /\ closes = <<1, 0>>


\* The tasks inside dispatch, past the increment of the gauge, under a label.
InFlight(label) ==
    {t \in Tasks : mpc[t] = "call_next" /\ <<mloc[t].method, mloc[t].endpoint>> = label}

\* C26: under every (method, endpoint) label the gauge requests_in_progress
\* is the number of non-excluded requests with that label inside dispatch; it
\* is never negative and is 0 when none is inside, however the requests
\* ended; a label only excluded requests would have never gets a child.
C26_GaugeBalanced ==
    /\ \A label \in DOMAIN in_progress :
          /\ in_progress[label] = Cardinality(InFlight(label))
          /\ in_progress[label] >= 0
          /\ \E t \in Tasks : mpc[t] \in {"call_next", "done"} /\ ~MetricsExcluded(mreq[t])
                                /\ <<mloc[t].method, mloc[t].endpoint>> = label
    /\ \A t \in Tasks :
          mpc[t] = "call_next" => <<mloc[t].method, mloc[t].endpoint>> \in DOMAIN in_progress

C26_Witness ==
    /\ \A t \in Tasks : mpc[t] = "done"
    /\ moutcome[1] = CancelledError
    /\ ~MetricsExcluded(mreq[1])
    /\ \E t \in Tasks : MetricsExcluded(mreq[t])
    /\ \A label \in DOMAIN in_progress : in_progress[label] = 0
    /\ DOMAIN in_progress # {}

\* The calls of record_request made for the request of task t.
RecordsOf(t) == {i \in DOMAIN recorded_requests : recorded_requests[i].task = t}

\* C27: a non-excluded request has no record_request call while its
\* downstream call runs and exactly one once it ended, whose status label is
\* the response's status code, or '500' when the downstream call raised or
\* was cancelled; the caller gets the response or the exception of the
\* downstream call; an excluded request has no record_request call.
C27_CountedOnce ==
    \A t \in Tasks :
        /\ mpc[t] \in {"idle", "call_next", "call_next_excluded"} => RecordsOf(t) = {}
        /\ mpc[t] = "done" /\ MetricsExcluded(mreq[t]) => RecordsOf(t) = {}
        /\ mpc[t] = "done" /\ ~MetricsExcluded(mreq[t]) =>
              /\ Cardinality(RecordsOf(t)) = 1
              /\ \A i \in RecordsOf(t) :
                    /\ recorded_requests[i].method = mreq[t].method
                    /\ recorded_requests[i].status
                          = (IF mresult[t].kind = "response"
                             THEN str(mresult[t].status) ELSE "500")
        /\ mpc[t] = "done" => moutcome[t] = mresult[t]

C27_Witness ==
    /\ mpc[1] = "done" /\ mpc[2] = "done"
    /\ moutcome[1] = CancelledError /\ moutcome[2] = Response(404, "ds-own")
    /\ ~MetricsExcluded(mreq[1]) /\ ~MetricsExcluded(mreq[2])
    /\ Len(recorded_requests) = 2
    /\ {recorded_requests[i].status : i \in DOMAIN recorded_requests} = {"500", "404"}


\* C29: at most one Prisma client that is not disconnected exists; connect()
\* was never called on a client that was connected or connecting; every
\* get_db_client call that returned gave a connected client.
C29_ConnectsOnce ==
    /\ Cardinality({k \in DOMAIN prisma : prisma[k] # "disconnected"}) <= 1
    /\ \A i \in DOMAIN connects : connects[i] \notin {"connected", "connecting"}
    /\ \A i \in DOMAIN dbReturned : dbReturned[i].client # 0 /\ dbReturned[i].state = "connected"

====
